---- MODULE Spec2Model ----
(***************************************************************************)
(* State-synchronisation engine of the city digital twin.                  *)
(*                                                                         *)
(* Two implementations of KafkaConsumerManager are modelled:               *)
(*   "batch"   - prototype/producer/README.md:1478-2118 (eachBatch, an     *)
(*               in-memory stateCache flushed to Redis by a timer);        *)
(*   "message" - prototype/state-manager/src/kafka/consumer.ts (eachMessage,*)
(*               a read-modify-write of Redis per message).                *)
(* JavaScript objects are records, arrays are sequences (index 1 is the    *)
(* array's index 0, findIndex's -1 is 0), a Map is a function whose DOMAIN *)
(* is the set of keys it holds, an absent or falsy string is "".           *)
(***************************************************************************)
EXTENDS Integers, Sequences, FiniteSets, TLC

MaxSteps == 3
MaxLog == 3

VARIABLES
    impl,        \* which KafkaConsumerManager runs: "batch" or "message"
    stateCache,  \* the batch consumer's in-memory Map
    redis,       \* the documents of the durable store, by key
    lastOp,      \* the message handled last: topic, payload, time of receipt
    steps,       \* messages handled so far (sequential application)
    log,         \* the messages of each partition, offsets 1..Len
    ptopic,      \* the topic of each partition
    position,    \* the offset each partition was consumed up to
    handle,      \* the handleBatch call of each partition
    tasks,       \* the bucket tasks of each partition's handleBatch call
    resolved,    \* the offsets passed to resolveOffset, by partition
    committed,   \* the committed offset of each partition
    alive,       \* the process is running
    flushResult, \* how the last two ticks of the flush timer ended
    stopPhase,   \* how far stop() has come: "running", "flushed", "stopped"
    peerCache,   \* the stateCache of a second instance of the batch consumer
    lastStates,  \* WebSocketHandler.lastStates: socket id -> baseline
    sockets,     \* each socket: its connection and its connection handler
    outbox,      \* the events emitted to each socket while it was connected
    broadcast,   \* the broadcast tick in progress and the state it fetched
    changeCounter, \* SnapshotManager: the changes counted since the last snapshot
    inbox,       \* the messages of the notifications topic, offsets 1..Len
    nOffset,     \* the offset the notification consumer has resolved up to
    nCommitted,  \* the committed offset of the notification consumer's group
    notifications, \* the documents of the notifications collection
    nlogs,       \* the line the notification consumer logged for each message
    earlier,     \* a broadcast cycle still in flight when the next tick fired
    dashboard,   \* the dashboard's city-state store: cityState, isLoading
    received,    \* the messages of the hub the dashboard's socket has handled
    service,     \* WebSocketService, the sockets it created and its timers
    pings,       \* the pings the service has sent
    called,      \* the method of the service the page called last
    clock,       \* the time, in poll intervals
    stored,      \* the number of stored notifications of each timestamp
    poll,        \* useNotificationPolling: lastPollRef and the query in flight
    passed       \* the number of notifications of each timestamp passed to the store

ingestVars == <<log, ptopic, position, handle, tasks, resolved, committed, alive>>

\* the state outside the ingestion path
\* the state of the WebSocket hub
hubVars == <<lastStates, sockets, outbox, broadcast>>

\* the state of the other processes
\* the state of the SnapshotManager
snapshotVars == <<changeCounter>>

\* the state of the notification manager
notifVars == <<inbox, nOffset, nCommitted, notifications, nlogs>>

\* a cycle of the hub overtaken by the next tick
overlapVars == <<earlier>>

\* the state of the dashboard
\* the city-state store and the messages its subscription has handled
storeVars == <<dashboard, received>>

\* the dashboard's WebSocketService and its caller
serviceVars == <<service, pings, called>>

\* the dashboard's notification polling and the collection it polls
pollVars == <<clock, stored, poll, passed>>

dashVars == <<storeVars, serviceVars, pollVars>>

\* the state beside the ingestion, the hub and the notification consumer
outerVars == <<overlapVars, dashVars>>

otherVars == <<peerCache, hubVars, snapshotVars, notifVars, outerVars>>

extraVars == <<flushResult, stopPhase, otherVars>>

vars == <<impl, stateCache, redis, lastOp, steps, log, ptopic, position, handle,
          tasks, resolved, committed, alive, extraVars>>

\* no flush tick yet, stop() not called
InitExtra ==
    /\ flushResult = [last |-> "none", previous |-> "none"]
    /\ stopPhase = "running"
    /\ peerCache = [k \in {} |-> 0]
    /\ lastStates = [k \in {} |-> 0]
    /\ sockets = [c \in {"s1", "s2"} |-> [conn |-> "new", handler |-> "none"]]
    /\ outbox = [c \in {"s1", "s2"} |-> <<>>]
    /\ broadcast = [phase |-> "idle"]
    /\ changeCounter = 0
    /\ inbox = <<>>
    /\ nOffset = 0
    /\ nCommitted = 0
    /\ notifications = <<>>
    /\ nlogs = <<>>
    /\ earlier = [phase |-> "idle"]
    /\ dashboard = [cityState |-> [cityState |-> "null"], isLoading |-> FALSE]
    /\ received = 0
    /\ service = [ws |-> 0, connectionState |-> "disconnected", reconnectAttempts |-> 0,
                  reconnectTimeout |-> "null", pingInterval |-> FALSE,
                  readyState |-> <<>>, overwritten |-> 0]
    /\ pings = 0
    /\ called = "none"
    /\ clock = 1
    /\ stored = [t \in 0..4 |-> 0]
    /\ poll = [phase |-> "idle", lastPollRef |-> -1, done |-> FALSE]
    /\ passed = [t \in 0..4 |-> 0]

(***************************************************************************)
(* Values                                                                  *)
(***************************************************************************)
speedTopic == "city-speed-sensors"
weatherTopic == "city-weather-sensors"
cameraTopic == "city-camera-sensors"
buildingsTopic == "buildings-monitoring"
vehiclesTopic == "vehicles-telemetry"

\* new Date(t): a Date object; JSON.stringify turns it into an ISO string
NewDate(t) == <<"Date", t>>

\* Date.now() at the receipt of a message: later than every carried timestamp
WallClock == {8, 9}

Put(map, key, value) ==
    [k \in (DOMAIN map) \cup {key} |-> IF k = key THEN value ELSE map[k]]

EmptyMap == [k \in {} |-> 0]

\* the lookup never finds the record
FindIndexMiss(array, field, id) == 0

\* array.findIndex(x => x[field] === id)
FindIndex(array, field, id) ==
    IF \E i \in 1..Len(array) : array[i][field] = id
    THEN CHOOSE i \in 1..Len(array) :
            /\ array[i][field] = id
            /\ \A j \in 1..(i - 1) : array[j][field] # id
    ELSE 0

\* the lookup's result is ignored: every update is pushed
UpsertAlwaysPush(array, index, item) == Append(array, item)

\* if (index !== -1) array[index] = item; else array.push(item)
Upsert(array, index, item) ==
    IF index # 0 THEN [array EXCEPT ![index] = item] ELSE Append(array, item)

(***************************************************************************)
(* Messages of the batch consumer's topics.  blocks = FALSE is a building  *)
(* or vehicle payload without its nested blocks (sensors,                  *)
(* managed_resources, gps_position, ...): reading them throws a TypeError. *)
(***************************************************************************)
BaseMessage ==
    [value |-> "json", districtId |-> "", district_id |-> "", edge_id |-> "",
     building_id |-> "", vehicle_id |-> "", reading |-> 0, timestamp |-> 0,
     latitude |-> 42, longitude |-> 13, sensor_count |-> 1, blocks |-> TRUE]

SensorMessage(d, e, v, t) ==
    [BaseMessage EXCEPT !.district_id = d, !.edge_id = e, !.reading = v,
                        !.timestamp = t]

BuildingMessage(b, v, t, blocks) ==
    [BaseMessage EXCEPT !.building_id = b, !.reading = v, !.timestamp = t,
                        !.blocks = blocks]

VehicleMessage(id, v, t, blocks) ==
    [BaseMessage EXCEPT !.vehicle_id = id, !.reading = v, !.timestamp = t,
                        !.blocks = blocks]

(***************************************************************************)
(* Batch consumer: the cache mutators                                      *)
(***************************************************************************)
\* every district is cached under one key
DistrictKeyShared(districtId) == "district:"

\* const cacheKey = `district:${district_id}`
DistrictKey(districtId) == "district:" \o districtId

createEmptyDistrict(districtId, latitude, longitude) ==
    [districtId |-> districtId,
     name |-> "District " \o districtId,
     location |-> [centerLatitude |-> latitude,
                   centerLongitude |-> longitude,
                   boundaries |-> [north |-> 0, south |-> 0, east |-> 0, west |-> 0]],
     sensors |-> <<>>,
     buildings |-> <<>>,
     weatherStations |-> <<>>]

\* a new district takes the place of every entry of the cache
WithDistrictAlone(cache, districtId, latitude, longitude) ==
    IF DistrictKey(districtId) \in DOMAIN cache
    THEN cache
    ELSE Put(EmptyMap, DistrictKey(districtId),
             createEmptyDistrict(districtId, latitude, longitude))

\* let district = stateCache.get(key); if (!district) { create; set }
WithDistrict(cache, districtId, latitude, longitude) ==
    IF DistrictKey(districtId) \in DOMAIN cache
    THEN cache
    ELSE Put(cache, DistrictKey(districtId),
             createEmptyDistrict(districtId, latitude, longitude))

calculateCongestionStatus(roadCondition) ==
    CASE roadCondition = "clear" -> "free_flow"
      [] roadCondition = "congestion" -> "congested"
      [] roadCondition = "accident" -> "blocked"
      [] roadCondition = "obstacles" -> "slow"
      [] roadCondition = "flooding" -> "blocked"
      [] OTHER -> "unknown"

\* road_condition carried by a camera message (derived from its reading)
RoadCondition(data) == IF data.reading > 40 THEN "congestion" ELSE "clear"

SpeedSensorData(data) ==
    [sensorId |-> "speed-" \o data.edge_id,
     type |-> "speed",
     edgeId |-> data.edge_id,
     value |-> data.reading,
     unit |-> "km/h",
     status |-> "active",
     lastUpdated |-> NewDate(data.timestamp),
     location |-> [latitude |-> data.latitude, longitude |-> data.longitude],
     metadata |-> [avgSpeed |-> data.reading, sensorCount |-> data.sensor_count]]

updateSpeedSensorInCache(cache, data) ==
    IF data.district_id = "" \/ data.edge_id = ""
    THEN cache
    ELSE LET c1 == WithDistrict(cache, data.district_id, data.latitude, data.longitude)
             district == c1[DistrictKey(data.district_id)]
             sensorData == SpeedSensorData(data)
             sensorIndex == FindIndex(district.sensors, "sensorId", sensorData.sensorId)
         IN  [c1 EXCEPT ![DistrictKey(data.district_id)].sensors =
                            Upsert(district.sensors, sensorIndex, sensorData)]

WeatherStationData(data) ==
    [stationId |-> "weather-" \o data.edge_id,
     name |-> "Weather Station " \o data.edge_id,
     edgeId |-> data.edge_id,
     location |-> [latitude |-> data.latitude, longitude |-> data.longitude,
                   elevation |-> 0],
     readings |-> [temperature |-> data.reading],
     status |-> "active",
     lastUpdated |-> NewDate(data.timestamp),
     metadata |-> [sensorCount |-> data.sensor_count]]

updateWeatherSensorInCache(cache, data) ==
    IF data.district_id = "" \/ data.edge_id = ""
    THEN cache
    ELSE LET c1 == WithDistrict(cache, data.district_id, data.latitude, data.longitude)
             district == c1[DistrictKey(data.district_id)]
             stationData == WeatherStationData(data)
             stationIndex == FindIndex(district.weatherStations, "stationId",
                                       stationData.stationId)
         IN  [c1 EXCEPT ![DistrictKey(data.district_id)].weatherStations =
                            Upsert(district.weatherStations, stationIndex, stationData)]

CameraSensorData(data) ==
    [sensorId |-> "camera-" \o data.edge_id,
     type |-> "camera",
     edgeId |-> data.edge_id,
     value |-> data.reading,
     unit |-> "vehicles",
     status |-> "active",
     lastUpdated |-> NewDate(data.timestamp),
     location |-> [latitude |-> data.latitude, longitude |-> data.longitude],
     metadata |-> [roadCondition |-> RoadCondition(data),
                   vehicleCount |-> data.reading,
                   sensorCount |-> data.sensor_count,
                   congestionStatus |-> calculateCongestionStatus(RoadCondition(data))]]

updateCameraSensorInCache(cache, data) ==
    IF data.district_id = "" \/ data.edge_id = ""
    THEN cache
    ELSE LET c1 == WithDistrict(cache, data.district_id, data.latitude, data.longitude)
             district == c1[DistrictKey(data.district_id)]
             sensorData == CameraSensorData(data)
             sensorIndex == FindIndex(district.sensors, "sensorId", sensorData.sensorId)
         IN  [c1 EXCEPT ![DistrictKey(data.district_id)].sensors =
                            Upsert(district.sensors, sensorIndex, sensorData)]

\* every branch of the source returns the same district
extractDistrictFromBuildingId(buildingId) ==
    IF buildingId \in {"building-hospital-1"} THEN "district-centro"
    ELSE IF buildingId \in {"building-school-1"} THEN "district-centro"
    ELSE "district-centro"

BuildingData(data) ==
    [buildingId |-> data.building_id,
     name |-> "name of " \o data.building_id,
     type |-> "hospital",
     location |-> [latitude |-> data.latitude, longitude |-> data.longitude],
     status |-> "operational",
     lastUpdated |-> NewDate(data.timestamp),
     airQuality |-> <<[sensorId |-> "aq-1", pm25 |-> data.reading]>>,
     acoustic |-> <<[sensorId |-> "ac-1", noiseLevel |-> data.reading]>>,
     displays |-> <<[sensorId |-> "dp-1", operational |-> TRUE]>>,
     managedResources |->
        [emergencyExits |-> <<[exitId |-> "exit-1", operational |-> TRUE]>>,
         elevators |-> <<[elevatorId |-> "elev-1", currentFloor |-> data.reading]>>]]

\* the skeleton is stored and the building record is left for a later step
updateBuildingSkeletonOnly(cache, data) ==
    IF data.building_id = ""
    THEN cache
    ELSE LET districtId == extractDistrictFromBuildingId(data.building_id)
             c1 == WithDistrict(cache, districtId, data.latitude, data.longitude)
             district == c1[DistrictKey(districtId)]
             buildingIndex == FindIndex(district.buildings, "buildingId", data.building_id)
         IN  IF ~data.blocks \/ DistrictKey(districtId) \notin DOMAIN cache
             THEN c1
             ELSE [c1 EXCEPT ![DistrictKey(districtId)].buildings =
                      Upsert(district.buildings, buildingIndex, BuildingData(data))]

\* the district is created and stored before the nested blocks are read
updateBuildingInCache(cache, data) ==
    IF data.building_id = ""
    THEN cache
    ELSE LET districtId == extractDistrictFromBuildingId(data.building_id)
             c1 == WithDistrict(cache, districtId, data.latitude, data.longitude)
             district == c1[DistrictKey(districtId)]
             buildingIndex == FindIndex(district.buildings, "buildingId", data.building_id)
         IN  IF ~data.blocks
             THEN c1
             ELSE [c1 EXCEPT ![DistrictKey(districtId)].buildings =
                      Upsert(district.buildings, buildingIndex, BuildingData(data))]

VehicleData(data) ==
    [vehicleId |-> data.vehicle_id,
     type |-> "ambulance",
     lastUpdated |-> NewDate(data.timestamp),
     gpsPosition |-> [latitude |-> data.latitude, longitude |-> data.longitude],
     movement |-> [speedKmh |-> data.reading],
     routePlanning |-> [currentDestination |-> "null", predictedDestinations |-> <<>>]]

\* the array is mutated and stored only after the whole record was built
updateVehicleInCache(cache, data) ==
    IF data.vehicle_id = "" \/ ~data.blocks
    THEN cache
    ELSE LET vehicles == IF "vehicles" \in DOMAIN cache THEN cache["vehicles"] ELSE <<>>
             vehicleIndex == FindIndex(vehicles, "vehicleId", data.vehicle_id)
         IN  Put(cache, "vehicles", Upsert(vehicles, vehicleIndex, VehicleData(data)))

\* a switch whose default branch takes the message for a speed reading
processMessageInMemoryDefaultSpeed(cache, topic, data) ==
    CASE topic = weatherTopic -> updateWeatherSensorInCache(cache, data)
      [] topic = cameraTopic -> updateCameraSensorInCache(cache, data)
      [] topic = buildingsTopic -> updateBuildingInCache(cache, data)
      [] topic = vehiclesTopic -> updateVehicleInCache(cache, data)
      [] OTHER -> updateSpeedSensorInCache(cache, data)

\* the switch has no default: a message of another topic changes nothing
processMessageInMemory(cache, topic, data) ==
    CASE topic = speedTopic -> updateSpeedSensorInCache(cache, data)
      [] topic = weatherTopic -> updateWeatherSensorInCache(cache, data)
      [] topic = cameraTopic -> updateCameraSensorInCache(cache, data)
      [] topic = buildingsTopic -> updateBuildingInCache(cache, data)
      [] topic = vehiclesTopic -> updateVehicleInCache(cache, data)
      [] OTHER -> cache

\* processMessageInMemory(topic, data) rejects (a TypeError in the mutator)
ProcessThrows(topic, data) ==
    \/ topic = buildingsTopic /\ data.building_id # "" /\ ~data.blocks
    \/ topic = vehiclesTopic /\ data.vehicle_id # "" /\ ~data.blocks

(***************************************************************************)
(* Message consumer (consumer.ts): every handler reads a document from     *)
(* Redis, changes it and writes it back.  Payloads are objects with the    *)
(* fields they carry; a field that is undefined is not serialised, so it   *)
(* is absent from the stored document.                                     *)
(***************************************************************************)
Fields(obj) == DOMAIN obj

Pick(obj, names) == [f \in names \cap Fields(obj) |-> obj[f]]

\* { ...a, ...b }
Merge(a, b) ==
    [f \in Fields(a) \cup Fields(b) |-> IF f \in Fields(b) THEN b[f] ELSE a[f]]

\* obj.field = value, where an undefined value leaves no field behind
Assign(obj, field, src, name) ==
    IF name \in Fields(src)
    THEN Put(obj, field, src[name])
    ELSE [f \in Fields(obj) \ {field} |-> obj[f]]

TruthyStr(obj, f) == f \in Fields(obj) /\ obj[f] # ""
TruthyNum(obj, f) == f \in Fields(obj) /\ obj[f] # 0

DistrictStateKey(districtId) == "district:" \o districtId \o ":state"

\* RedisStateManager.getDistrictState: the stored document or null (0 here)
getDistrictState(store, districtId) ==
    IF DistrictStateKey(districtId) \in DOMAIN store
    THEN store[DistrictStateKey(districtId)]
    ELSE [districtId |-> ""]

\* JSON.stringify of an entity: a Date becomes its ISO string
StringifyEntity(entity) ==
    IF "lastUpdated" \in DOMAIN entity
    THEN [entity EXCEPT !.lastUpdated = <<"ISO", @[2]>>]
    ELSE entity

\* array.map(JSON.stringify)
StringifyAll(array) == [i \in 1..Len(array) |-> StringifyEntity(array[i])]

StringifyGraph(graph) == [graph EXCEPT !.edges = StringifyAll(@)]

\* JSON.stringify(district)
StringifyDistrict(district) ==
    LET d1 == [district EXCEPT !.sensors = StringifyAll(@),
                               !.buildings = StringifyAll(@),
                               !.weatherStations = StringifyAll(@)]
    IN  IF "districtGraph" \in DOMAIN d1
        THEN [d1 EXCEPT !.districtGraph = StringifyGraph(@)]
        ELSE d1

\* RedisStateManager.updateDistrictState: the document is stored as JSON
updateDistrictState(store, district) ==
    Put(store, DistrictStateKey(district.districtId), StringifyDistrict(district))

\* new Date(lastUpdated || Date.now())
ReceiptDate(data, now) ==
    NewDate(IF TruthyNum(data, "lastUpdated") THEN data.lastUpdated ELSE now)

NewSensor(data, now) ==
    Merge(Pick(data, {"sensorId", "type", "value", "unit", "location", "metadata"}),
          [status |-> IF TruthyStr(data, "status") THEN data.status ELSE "active",
           lastUpdated |-> ReceiptDate(data, now)])

\* { ...old, value, status: status || old.status, lastUpdated, location?, metadata? }
UpdatedSensor(old, data, now) ==
    LET r1 == Assign(old, "value", data, "value")
        r2 == IF TruthyStr(data, "status") THEN Put(r1, "status", data.status) ELSE r1
        r3 == Put(r2, "lastUpdated", ReceiptDate(data, now))
    IN  Merge(r3, Pick(data, {"location", "metadata"}))

handleSensorData(store, data, now) ==
    IF ~TruthyStr(data, "districtId") \/ ~TruthyStr(data, "sensorId")
    THEN store
    ELSE LET district == getDistrictState(store, data.districtId)
         IN  IF district.districtId = ""
             THEN updateDistrictState(store,
                    [districtId |-> data.districtId,
                     name |-> "District " \o data.districtId,
                     location |-> [centerLatitude |-> IF "location" \in Fields(data)
                                                      THEN data.location.latitude ELSE 0,
                                   centerLongitude |-> IF "location" \in Fields(data)
                                                       THEN data.location.longitude ELSE 0,
                                   boundaries |-> [north |-> 0, south |-> 0,
                                                   east |-> 0, west |-> 0]],
                     sensors |-> <<NewSensor(data, now)>>,
                     buildings |-> <<>>,
                     weatherStations |-> <<>>,
                     districtGraph |-> [nodes |-> <<>>, edges |-> <<>>]])
             ELSE LET sensorIndex == FindIndex(district.sensors, "sensorId", data.sensorId)
                  IN  updateDistrictState(store,
                        [district EXCEPT !.sensors =
                           IF sensorIndex # 0
                           THEN [@ EXCEPT ![sensorIndex] = UpdatedSensor(@, data, now)]
                           ELSE Append(@, NewSensor(data, now))])

\* currentOccupancy / totalCapacity, kept as the pair of its operands
Ratio(a, b) == [num |-> a, den |-> b]

handleBuildingOccupancy(store, data) ==
    IF ~TruthyStr(data, "districtId") \/ ~TruthyStr(data, "buildingId")
    THEN store
    ELSE LET district == getDistrictState(store, data.districtId)
             buildingIndex == FindIndex(district.buildings, "buildingId", data.buildingId)
         IN  IF district.districtId = "" THEN store
             ELSE IF buildingIndex = 0 THEN store
             ELSE updateDistrictState(store,
                    [district EXCEPT !.buildings[buildingIndex] =
                        Put(Put(@, "currentOccupancy", data.currentOccupancy),
                            "occupancyRate",
                            Ratio(data.currentOccupancy, data.totalCapacity))])

handleBuildingSensors(store, data, now) == handleSensorData(store, data, now)

handleWeatherData(store, data, now) ==
    IF ~TruthyStr(data, "districtId") \/ ~TruthyStr(data, "stationId")
    THEN store
    ELSE LET district == getDistrictState(store, data.districtId)
             stationIndex == FindIndex(district.weatherStations, "stationId", data.stationId)
         IN  IF district.districtId = "" THEN store
             ELSE IF stationIndex = 0 THEN store
             ELSE updateDistrictState(store,
                    [district EXCEPT !.weatherStations[stationIndex] =
                        LET r1 == Assign(@, "readings", data, "readings")
                            r2 == IF TruthyStr(data, "status")
                                  THEN Put(r1, "status", data.status) ELSE r1
                        IN  Put(r2, "lastUpdated", ReceiptDate(data, now))])

\* lastUpdated = new Date(): the time of receipt, whatever the event carries
handleTrafficGraph(store, data, now) ==
    IF ~TruthyStr(data, "districtId") \/ ~TruthyStr(data, "edgeId")
    THEN store
    ELSE LET district == getDistrictState(store, data.districtId)
             edgeIndex == FindIndex(district.districtGraph.edges, "edgeId", data.edgeId)
         IN  IF district.districtId = "" THEN store
             ELSE IF edgeIndex = 0 THEN store
             ELSE updateDistrictState(store,
                    [district EXCEPT !.districtGraph.edges[edgeIndex] =
                        Put(Assign(@, "trafficConditions", data, "trafficConditions"),
                            "lastUpdated", NewDate(now))])

\* array[index] = { ...array[index], ...data }, or array.push(data)
MergeInto(array, field, data) ==
    LET index == FindIndex(array, field, data[field])
    IN  IF index # 0
        THEN [array EXCEPT ![index] = Merge(@, data)]
        ELSE Append(array, data)

handlePublicTransport(store, data) ==
    LET currentData == IF "city:publicTransport" \in DOMAIN store
                       THEN store["city:publicTransport"]
                       ELSE [buses |-> <<>>, stations |-> <<>>]
    IN  Put(store, "city:publicTransport",
            IF TruthyStr(data, "busId")
            THEN [currentData EXCEPT !.buses = MergeInto(@, "busId", data)]
            ELSE IF TruthyStr(data, "stationId")
            THEN [currentData EXCEPT !.stations = MergeInto(@, "stationId", data)]
            ELSE currentData)

handleEmergencyIncident(store, data) ==
    LET currentData == IF "city:emergencyServices" \in DOMAIN store
                       THEN store["city:emergencyServices"]
                       ELSE [incidents |-> <<>>, units |-> <<>>]
    IN  Put(store, "city:emergencyServices",
            IF TruthyStr(data, "incidentId")
            THEN [currentData EXCEPT !.incidents = MergeInto(@, "incidentId", data)]
            ELSE IF TruthyStr(data, "unitId")
            THEN [currentData EXCEPT !.units = MergeInto(@, "unitId", data)]
            ELSE currentData)

\* handleMessage's switch; an unknown topic is logged and changes nothing
RouteMessage(store, topic, data, now) ==
    CASE topic \in {"sensors.environmental", "sensors.traffic"} ->
            handleSensorData(store, data, now)
      [] topic = "buildings.occupancy" -> handleBuildingOccupancy(store, data)
      [] topic = "buildings.sensors" -> handleBuildingSensors(store, data, now)
      [] topic = "weather.stations" -> handleWeatherData(store, data, now)
      [] topic = "traffic.graph" -> handleTrafficGraph(store, data, now)
      [] topic \in {"transport.gps", "transport.stations"} ->
            handlePublicTransport(store, data)
      [] topic = "emergency.incidents" -> handleEmergencyIncident(store, data)
      [] OTHER -> store

(***************************************************************************)
(* Inputs                                                                  *)
(***************************************************************************)
\* two of the partitions the consumer group member is assigned
Partitions == {"P1", "P2"}

BatchInputs ==
    {<<speedTopic, SensorMessage("D1", "E7", v, t)>> : v \in {42, 38}, t \in {1, 2}}
    \cup {<<speedTopic, SensorMessage("D2", "E7", 42, 1)>>,
          <<speedTopic, SensorMessage("district-centro", "E7", 42, 1)>>,
          <<speedTopic, SensorMessage("D1", "", 42, 1)>>,
          <<cameraTopic, SensorMessage("D1", "E7", 5, 1)>>,
          <<cameraTopic, SensorMessage("D1", "E7", 50, 2)>>,
          <<weatherTopic, SensorMessage("D1", "E7", 20, 1)>>,
          <<weatherTopic, SensorMessage("D1", "E7", 21, 2)>>,
          <<buildingsTopic, BuildingMessage("building-hospital-1", 7, 1, TRUE)>>,
          <<buildingsTopic, BuildingMessage("building-hospital-1", 9, 2, TRUE)>>,
          <<buildingsTopic, BuildingMessage("building-school-1", 7, 1, TRUE)>>,
          <<buildingsTopic, BuildingMessage("building-hospital-1", 7, 1, FALSE)>>,
          <<buildingsTopic, BuildingMessage("", 7, 1, TRUE)>>,
          <<vehiclesTopic, VehicleMessage("veh-1", 50, 1, TRUE)>>,
          <<vehiclesTopic, VehicleMessage("veh-1", 60, 2, TRUE)>>,
          <<vehiclesTopic, VehicleMessage("veh-2", 50, 1, TRUE)>>,
          <<vehiclesTopic, VehicleMessage("veh-1", 50, 1, FALSE)>>,
          <<"other-topic", SensorMessage("D1", "E7", 42, 1)>>}

Place == [latitude |-> 42, longitude |-> 13]

MessageInputs ==
    {<<"sensors.environmental",
       [districtId |-> "D1", sensorId |-> "s1", type |-> "pm25", value |-> 42,
        unit |-> "ug/m3", lastUpdated |-> 1, location |-> Place]>>,
     <<"sensors.traffic",
       [districtId |-> "D1", sensorId |-> "s1", type |-> "camera", value |-> 38,
        unit |-> "vehicles", status |-> "degraded", lastUpdated |-> 2]>>,
     <<"sensors.environmental",
       [districtId |-> "D1", sensorId |-> "s1", status |-> "error"]>>,
     <<"buildings.sensors",
       [districtId |-> "D2", sensorId |-> "s2", type |-> "pm25", value |-> 42,
        unit |-> "ug/m3", lastUpdated |-> 1, metadata |-> [floor |-> 1]]>>,
     <<"sensors.traffic", [sensorId |-> "s1", value |-> 42]>>,
     <<"buildings.occupancy",
       [districtId |-> "D1", buildingId |-> "b1", currentOccupancy |-> 5,
        totalCapacity |-> 10]>>,
     <<"buildings.occupancy",
       [districtId |-> "D2", buildingId |-> "b1", currentOccupancy |-> 5,
        totalCapacity |-> 10]>>,
     <<"weather.stations",
       [districtId |-> "D1", stationId |-> "w1", readings |-> [temperature |-> 20],
        lastUpdated |-> 2]>>,
     <<"weather.stations",
       [districtId |-> "D1", stationId |-> "w2", readings |-> [temperature |-> 20],
        lastUpdated |-> 2]>>,
     <<"traffic.graph",
       [districtId |-> "D1", edgeId |-> "E7",
        trafficConditions |-> [averageSpeed |-> 35], timestamp |-> 2]>>,
     <<"transport.gps", [busId |-> "bus-1", route |-> "R1", speed |-> 10]>>,
     <<"transport.gps", [busId |-> "bus-1", speed |-> 20]>>,
     <<"transport.gps", [busId |-> "bus-2", speed |-> 20]>>,
     <<"transport.stations", [stationId |-> "st-1", name |-> "Terminal"]>>,
     <<"emergency.incidents", [incidentId |-> "inc-1", severity |-> "high"]>>,
     <<"emergency.incidents", [incidentId |-> "inc-1", status |-> "closed"]>>,
     <<"emergency.incidents", [unitId |-> "unit-1", status |-> "dispatched"]>>,
     <<"unknown.topic", [districtId |-> "D1", sensorId |-> "s1", value |-> 1]>>}

\* a store bootstrapped with one district that has a building, a weather
\* station and a graph edge
SeededStore ==
    [k \in {DistrictStateKey("D1")} |->
       [districtId |-> "D1",
        name |-> "District D1",
        location |-> [centerLatitude |-> 42, centerLongitude |-> 13,
                      boundaries |-> [north |-> 0, south |-> 0, east |-> 0, west |-> 0]],
        sensors |-> <<>>,
        buildings |-> <<[buildingId |-> "b1", name |-> "Hospital",
                         currentOccupancy |-> 1, occupancyRate |-> Ratio(1, 10)]>>,
        weatherStations |-> <<[stationId |-> "w1", name |-> "Station w1",
                               readings |-> [temperature |-> 18],
                               status |-> "active", lastUpdated |-> <<"ISO", 1>>]>>,
        districtGraph |-> [nodes |-> <<>>,
                           edges |-> <<[edgeId |-> "E7", speedLimit |-> 50,
                                        trafficConditions |-> [averageSpeed |-> 30],
                                        lastUpdated |-> <<"ISO", 1>>]>>]]]

NoOp == [topic |-> "", data |-> BaseMessage, now |-> 0]

\* the number of counted changes at which a snapshot is taken
SnapshotThreshold == 3

\* SnapshotManager.incrementChangeCounter(getState, count = 1): the counter
\* is advanced by count; at the threshold a snapshot is taken and the
\* counter starts again
incrementChangeCounter(counter, count) ==
    IF counter + count >= SnapshotThreshold THEN 0 ELSE counter + count

(***************************************************************************)
(* Sequential application of updates, by either implementation             *)
(***************************************************************************)
InitApply ==
    /\ impl \in {"batch", "message"}
    /\ stateCache = EmptyMap
    /\ redis \in (IF impl = "message" THEN {EmptyMap, SeededStore} ELSE {EmptyMap})
    /\ lastOp = NoOp
    /\ steps = 0
    /\ log = [p \in Partitions |-> <<>>]
    /\ ptopic = [p \in Partitions |-> speedTopic]
    /\ position = [p \in Partitions |-> 0]
    /\ handle = [p \in Partitions |-> "idle"]
    /\ tasks = [p \in Partitions |-> <<>>]
    /\ resolved = [p \in Partitions |-> {}]
    /\ committed = [p \in Partitions |-> 0]
    /\ alive = TRUE
    /\ InitExtra

\* handleBatch's loop body for one message (README.md:1596-1605)
ApplyOneOf(inputs) ==
    /\ impl = "batch"
    /\ alive
    /\ steps < MaxSteps
    /\ \E in \in inputs :
          /\ stateCache' = processMessageInMemory(stateCache, in[1], in[2])
          /\ lastOp' = [topic |-> in[1], data |-> in[2], now |-> 0]
    /\ steps' = steps + 1
    /\ UNCHANGED <<impl, redis>>
    /\ UNCHANGED ingestVars
    /\ UNCHANGED extraVars

ApplyInMemory == ApplyOneOf(BatchInputs)

\* handleMessage for one message with a JSON value (consumer.ts:78-134)
HandleMessage ==
    /\ impl = "message"
    /\ steps < MaxSteps
    /\ \E in \in MessageInputs, now \in WallClock :
          /\ redis' = RouteMessage(redis, in[1], in[2], now)
          /\ lastOp' = [topic |-> in[1], data |-> in[2], now |-> now]
    /\ steps' = steps + 1
    /\ UNCHANGED <<notifVars, outerVars>>
    /\ changeCounter' = incrementChangeCounter(changeCounter, 1)
    /\ UNCHANGED <<impl, stateCache, flushResult, stopPhase, peerCache>>
    /\ UNCHANGED ingestVars
    /\ UNCHANGED hubVars

NextApply == ApplyInMemory \/ HandleMessage

SpecApply == InitApply /\ [][NextApply]_vars

(***************************************************************************)
(* Properties of the sequential application of updates                     *)
(***************************************************************************)
DistrictIds == {"D1", "D2", "district-centro"}

ZeroBox == [north |-> 0, south |-> 0, east |-> 0, west |-> 0]

NoDuplicate(array, field) ==
    \A i, j \in 1..Len(array) : array[i][field] = array[j][field] => i = j

DistrictIdsUnique(district) ==
    /\ NoDuplicate(district.sensors, "sensorId")
    /\ NoDuplicate(district.buildings, "buildingId")
    /\ NoDuplicate(district.weatherStations, "stationId")

\* C6: ids are unique within every collection of the cache and of the
\* durable store: sensors, buildings and weather stations of each district,
\* vehicles, buses, stations, incidents and units; and a district id names
\* at most one district entry.
C6_UniqueIds ==
    /\ \A d \in DistrictIds :
          /\ DistrictKey(d) \in DOMAIN stateCache =>
                /\ DistrictIdsUnique(stateCache[DistrictKey(d)])
                /\ stateCache[DistrictKey(d)].districtId = d
          /\ DistrictStateKey(d) \in DOMAIN redis =>
                /\ DistrictIdsUnique(redis[DistrictStateKey(d)])
                /\ redis[DistrictStateKey(d)].districtId = d
    /\ "vehicles" \in DOMAIN stateCache => NoDuplicate(stateCache["vehicles"], "vehicleId")
    /\ "city:publicTransport" \in DOMAIN redis =>
          /\ NoDuplicate(redis["city:publicTransport"].buses, "busId")
          /\ NoDuplicate(redis["city:publicTransport"].stations, "stationId")
    /\ "city:emergencyServices" \in DOMAIN redis =>
          /\ NoDuplicate(redis["city:emergencyServices"].incidents, "incidentId")
          /\ NoDuplicate(redis["city:emergencyServices"].units, "unitId")

\* a speed update of a sensor that was pushed before the camera sensor of
\* the same district: the last update hit a known id
C6_Witness ==
    /\ impl = "batch"
    /\ lastOp.topic = speedTopic
    /\ lastOp.data = SensorMessage("D1", "E7", 38, 2)
    /\ DistrictKey("D1") \in DOMAIN stateCache
    /\ Len(stateCache[DistrictKey("D1")].sensors) = 2
    /\ stateCache[DistrictKey("D1")].sensors[1].sensorId = "speed-E7"
    /\ stateCache[DistrictKey("D1")].sensors[2].sensorId = "camera-E7"

Matching(array, field, id) == {i \in 1..Len(array) : array[i][field] = id}

\* C7: after an event for an entity is applied, the collection holds exactly
\* one record of that id, whose value and lastUpdated are the ones the event
\* carries (never the time of receipt), whatever was applied before.
C7_LastEventWins ==
    /\ (/\ impl = "batch"
        /\ lastOp.topic = speedTopic
        /\ lastOp.data.district_id # "" /\ lastOp.data.edge_id # "")
       => LET sensors == stateCache[DistrictKey(lastOp.data.district_id)].sensors
              hits == Matching(sensors, "sensorId", "speed-" \o lastOp.data.edge_id)
          IN  /\ Cardinality(hits) = 1
              /\ \A i \in hits :
                    /\ sensors[i].value = lastOp.data.reading
                    /\ sensors[i].lastUpdated = NewDate(lastOp.data.timestamp)
    /\ (/\ impl = "message"
        /\ lastOp.topic \in {"sensors.environmental", "sensors.traffic", "buildings.sensors"}
        /\ TruthyStr(lastOp.data, "districtId") /\ TruthyStr(lastOp.data, "sensorId")
        /\ {"value", "lastUpdated"} \subseteq DOMAIN lastOp.data)
       => LET sensors == redis[DistrictStateKey(lastOp.data.districtId)].sensors
              hits == Matching(sensors, "sensorId", lastOp.data.sensorId)
          IN  /\ Cardinality(hits) = 1
              /\ \A i \in hits :
                    /\ sensors[i].value = lastOp.data.value
                    /\ sensors[i].lastUpdated[2] = lastOp.data.lastUpdated
    /\ (/\ impl = "message"
        /\ lastOp.topic = "traffic.graph"
        /\ DistrictStateKey(lastOp.data.districtId) \in DOMAIN redis)
       => LET edges == redis[DistrictStateKey(lastOp.data.districtId)].districtGraph.edges
              hits == Matching(edges, "edgeId", lastOp.data.edgeId)
          IN  \A i \in hits :
                 /\ edges[i].trafficConditions = lastOp.data.trafficConditions
                 /\ edges[i].lastUpdated[2] = lastOp.data.timestamp

\* the field of the stored record holds what the event carries
CarriedEq(record, data, f) ==
    /\ f \in DOMAIN record
    /\ IF f = "lastUpdated" THEN record[f][2] = data[f] ELSE record[f] = data[f]

\* an update of a known id merges, an update of an unknown id appends
MergedOrAppended(old, new, idField, data, carried) ==
    LET index == FindIndex(old, idField, data[idField])
    IN  IF index # 0
        THEN /\ Len(new) = Len(old)
             /\ \A j \in 1..Len(old) : j # index => new[j] = old[j]
             /\ \A f \in carried \cap DOMAIN data : CarriedEq(new[index], data, f)
             /\ \A f \in (DOMAIN old[index]) \ (DOMAIN data) :
                   f \in DOMAIN new[index] /\ new[index][f] = old[index][f]
        ELSE /\ Len(new) = Len(old) + 1
             /\ \A j \in 1..Len(old) : new[j] = old[j]
             /\ new[Len(new)][idField] = data[idField]

\* C8: an update for a known id keeps the fields it does not carry and
\* overwrites the ones it carries; an update for an unknown id appends one
\* record (sensors of a known district, buses, stations, incidents and
\* units of the message consumer).
C8_MergeKnownId ==
    [][HandleMessage =>
        LET op == lastOp'
            data == op.data
            key == DistrictStateKey(data.districtId)
        IN  /\ (/\ op.topic \in {"sensors.environmental", "sensors.traffic",
                                 "buildings.sensors"}
                /\ TruthyStr(data, "districtId") /\ TruthyStr(data, "sensorId")
                /\ key \in DOMAIN redis)
               => MergedOrAppended(redis[key].sensors, redis'[key].sensors,
                                   "sensorId", data, (DOMAIN data) \ {"districtId"})
            /\ (op.topic \in {"transport.gps", "transport.stations"}
                /\ "city:publicTransport" \in DOMAIN redis)
               => IF TruthyStr(data, "busId")
                  THEN MergedOrAppended(redis["city:publicTransport"].buses,
                                        redis'["city:publicTransport"].buses,
                                        "busId", data, DOMAIN data)
                  ELSE MergedOrAppended(redis["city:publicTransport"].stations,
                                        redis'["city:publicTransport"].stations,
                                        "stationId", data, DOMAIN data)
            /\ (op.topic = "emergency.incidents"
                /\ "city:emergencyServices" \in DOMAIN redis)
               => IF TruthyStr(data, "incidentId")
                  THEN MergedOrAppended(redis["city:emergencyServices"].incidents,
                                        redis'["city:emergencyServices"].incidents,
                                        "incidentId", data, DOMAIN data)
                  ELSE MergedOrAppended(redis["city:emergencyServices"].units,
                                        redis'["city:emergencyServices"].units,
                                        "unitId", data, DOMAIN data)
    ]_vars

\* the district an event references, "" when it lacks an identity field
ReferencedDistrict(op) ==
    CASE op.topic \in {speedTopic, weatherTopic, cameraTopic}
            /\ op.data.district_id # "" /\ op.data.edge_id # "" -> op.data.district_id
      [] op.topic = buildingsTopic /\ op.data.building_id # "" /\ op.data.blocks ->
            extractDistrictFromBuildingId(op.data.building_id)
      [] op.topic \in {"sensors.environmental", "sensors.traffic", "buildings.sensors"}
            /\ TruthyStr(op.data, "districtId") /\ TruthyStr(op.data, "sensorId") ->
            op.data.districtId
      [] op.topic = "buildings.occupancy"
            /\ TruthyStr(op.data, "districtId") /\ TruthyStr(op.data, "buildingId") ->
            op.data.districtId
      [] op.topic = "weather.stations"
            /\ TruthyStr(op.data, "districtId") /\ TruthyStr(op.data, "stationId") ->
            op.data.districtId
      [] op.topic = "traffic.graph"
            /\ TruthyStr(op.data, "districtId") /\ TruthyStr(op.data, "edgeId") ->
            op.data.districtId
      [] OTHER -> ""

Entities(district) ==
    Len(district.sensors) + Len(district.buildings) + Len(district.weatherStations)

\* the district was created as a skeleton and one entity merged into it
CreatedWithOneEntity(district, d) ==
    /\ district.districtId = d
    /\ district.location.boundaries = ZeroBox
    /\ Entities(district) = 1

\* the district was neither re-created nor reset
DistrictKept(old, new) ==
    /\ new.districtId = old.districtId
    /\ new.name = old.name
    /\ new.location = old.location
    /\ Len(new.sensors) >= Len(old.sensors)
    /\ Len(new.buildings) >= Len(old.buildings)
    /\ Len(new.weatherStations) >= Len(old.weatherStations)

LazyDistrict(old, new, key, d) ==
    IF key \in DOMAIN old
    THEN key \in DOMAIN new /\ DistrictKept(old[key], new[key])
    ELSE key \in DOMAIN new /\ CreatedWithOneEntity(new[key], d)

\* C9: the first event of any category that references an unknown district
\* creates the district (empty collections, zero boundary box) and merges
\* the entity into it; an event for a known district never resets it.
C9_LazyDistrict ==
    [][(ApplyInMemory \/ HandleMessage) =>
        LET d == ReferencedDistrict(lastOp')
        IN  d # "" =>
               IF impl = "batch"
               THEN LazyDistrict(stateCache, stateCache', DistrictKey(d), d)
               ELSE LazyDistrict(redis, redis', DistrictStateKey(d), d)
    ]_vars

CompleteBuilding(building) ==
    /\ Len(building.airQuality) > 0
    /\ Len(building.acoustic) > 0
    /\ Len(building.displays) > 0
    /\ Len(building.managedResources.emergencyExits) > 0
    /\ Len(building.managedResources.elevators) > 0

\* C10: the step that applies a building event (carrying its sensor and
\* resource blocks) for an unknown building of an unknown district leads to
\* a cache that holds the district skeleton together with the complete
\* building record; there is no state in between.
C10_BuildingInOneStep ==
    [][(/\ ApplyInMemory
        /\ lastOp'.topic = buildingsTopic
        /\ lastOp'.data.building_id # ""
        /\ lastOp'.data.blocks
        /\ DistrictKey(extractDistrictFromBuildingId(lastOp'.data.building_id))
              \notin DOMAIN stateCache)
       => LET key == DistrictKey(extractDistrictFromBuildingId(lastOp'.data.building_id))
          IN  /\ key \in DOMAIN stateCache'
              /\ stateCache'[key].location.boundaries = ZeroBox
              /\ stateCache'[key].sensors = <<>>
              /\ stateCache'[key].weatherStations = <<>>
              /\ Len(stateCache'[key].buildings) = 1
              /\ stateCache'[key].buildings[1].buildingId = lastOp'.data.building_id
              /\ CompleteBuilding(stateCache'[key].buildings[1])
    ]_vars

\* the first applied message is a complete building message
C10_Witness ==
    /\ impl = "batch"
    /\ steps = 1
    /\ lastOp.topic = buildingsTopic
    /\ lastOp.data.blocks
    /\ DistrictKey("district-centro") \in DOMAIN stateCache
    /\ Len(stateCache[DistrictKey("district-centro")].buildings) = 1

(***************************************************************************)
(* Batch ingestion: handleBatch (README.md:1584-1627).  A handleBatch call *)
(* groups the batch and starts one task per bucket; a task runs until its  *)
(* next await (the promise of processMessageInMemory, or heartbeat), where *)
(* the tasks of this and of the other running calls interleave.            *)
(***************************************************************************)
partitionsConsumedConcurrently == 3

NullMessage == [BaseMessage EXCEPT !.value = "null"]
InvalidMessage == [BaseMessage EXCEPT !.value = "invalid"]

\* the payloads a partition of the topic may hold
TopicMessages(topic) ==
    IF topic = speedTopic
    THEN {SensorMessage("D1", "E7", 42, 1),
          SensorMessage("D1", "E7", 38, 2),
          SensorMessage("D2", "E7", 42, 1),
          [SensorMessage("D2", "E7", 38, 2) EXCEPT !.districtId = "D2"],
          SensorMessage("D1", "", 42, 1),
          NullMessage,
          InvalidMessage}
    ELSE IF topic = buildingsTopic
    THEN {BuildingMessage("building-hospital-1", 7, 1, TRUE),
          BuildingMessage("building-hospital-1", 7, 1, FALSE)}
    ELSE {VehicleMessage("veh-1", 50, 1, TRUE)}

IngestTopics == {speedTopic, buildingsTopic, vehiclesTopic}

Max(S) == CHOOSE x \in S : \A y \in S : y <= x

Ascending(S) ==
    CHOOSE seq \in [1..Cardinality(S) -> S] :
        \A i, j \in 1..Cardinality(S) : i < j => seq[i] < seq[j]

\* batch.messages of the batch fetched from the consumer's position on
BatchMessages(p) ==
    [i \in 1..(Len(log[p]) - position[p]) |->
        [offset |-> position[p] + i, payload |-> log[p][position[p] + i]]]

\* const groupKey = data.districtId || 'shared'
GroupKey(data) == IF data.districtId # "" THEN data.districtId ELSE "shared"

\* grouping stops at the first message that has no parseable value
groupMessagesUntilError(messages) ==
    LET parsed == {i \in 1..Len(messages) :
                      \A j \in 1..i : messages[j].payload.value = "json"}
        firsts == {i \in parsed : \A j \in parsed :
                      j < i => GroupKey(messages[j].payload) # GroupKey(messages[i].payload)}
        order == Ascending(firsts)
    IN  [n \in 1..Cardinality(firsts) |->
           LET members == Ascending({i \in parsed : GroupKey(messages[i].payload)
                                        = GroupKey(messages[order[n]].payload)})
           IN  [key |-> GroupKey(messages[order[n]].payload),
                messages |-> [m \in 1..Len(members) |-> messages[members[m]]]]]

\* the buckets in the Map's insertion order; a message without a value or
\* with a value that does not parse is in no bucket
groupMessages(messages) ==
    LET parsed == {i \in 1..Len(messages) : messages[i].payload.value = "json"}
        firsts == {i \in parsed : \A j \in parsed :
                      j < i => GroupKey(messages[j].payload) # GroupKey(messages[i].payload)}
        order == Ascending(firsts)
    IN  [n \in 1..Cardinality(firsts) |->
           LET members == Ascending({i \in parsed : GroupKey(messages[i].payload)
                                        = GroupKey(messages[order[n]].payload)})
           IN  [key |-> GroupKey(messages[order[n]].payload),
                messages |-> [m \in 1..Len(members) |-> messages[members[m]]]]]

\* the synchronous start of the first n bucket tasks: each processes its
\* first message and suspends
RECURSIVE StartTasks(_, _, _, _)
StartTasks(cache, topic, groups, n) ==
    IF n = 0 THEN cache
    ELSE processMessageInMemory(StartTasks(cache, topic, groups, n - 1), topic,
                                groups[n].messages[1].payload)

\* Promise.all settles only when every bucket task has finished
PromiseAll(ts) == \A i \in 1..Len(ts) : ts[i].phase = "done"

Running == {p \in Partitions : handle[p] \in {"running", "committing"}}

\* eachBatch invokes handleBatch: groupMessages, then the bucket tasks start
StartBatch(p) ==
    /\ alive
    /\ stopPhase # "stopped"
    /\ handle[p] = "idle"
    /\ position[p] < Len(log[p])
    /\ Cardinality(Running) < partitionsConsumedConcurrently
    /\ LET groups == groupMessages(BatchMessages(p))
       IN  /\ stateCache' = StartTasks(stateCache, ptopic[p], groups, Len(groups))
           /\ tasks' = [tasks EXCEPT ![p] =
                 [n \in 1..Len(groups) |->
                    [key |-> groups[n].key,
                     messages |-> groups[n].messages,
                     cur |-> 1,
                     phase |-> "process",
                     threw |-> ProcessThrows(ptopic[p], groups[n].messages[1].payload)]]]
    /\ handle' = [handle EXCEPT ![p] = "running"]
    /\ UNCHANGED <<impl, redis, lastOp, steps, log, ptopic, position, resolved,
                   committed, alive>>
    /\ UNCHANGED extraVars

\* a bucket task resumes after processMessageInMemory: resolveOffset unless
\* the processing threw, then the next message, or heartbeat after the last
TaskResume(p, i) ==
    /\ alive
    /\ i \in 1..Len(tasks[p])
    /\ tasks[p][i].phase = "process"
    /\ LET t == tasks[p][i]
       IN  /\ resolved' = [resolved EXCEPT ![p] =
                 IF t.threw THEN @ ELSE @ \cup {t.messages[t.cur].offset}]
           /\ IF t.cur < Len(t.messages)
              THEN /\ stateCache' = processMessageInMemory(stateCache, ptopic[p],
                                        t.messages[t.cur + 1].payload)
                   /\ tasks' = [tasks EXCEPT ![p][i].cur = t.cur + 1,
                                             ![p][i].threw =
                                    ProcessThrows(ptopic[p], t.messages[t.cur + 1].payload)]
              ELSE /\ tasks' = [tasks EXCEPT ![p][i].phase = "heartbeat"]
                   /\ UNCHANGED stateCache
    /\ UNCHANGED <<impl, redis, lastOp, steps, log, ptopic, position, handle,
                   committed, alive>>
    /\ UNCHANGED extraVars

\* heartbeat() resolves: the bucket task is finished
HeartbeatOk(p, i) ==
    /\ alive
    /\ i \in 1..Len(tasks[p])
    /\ tasks[p][i].phase = "heartbeat"
    /\ tasks' = [tasks EXCEPT ![p][i].phase = "done"]
    /\ UNCHANGED <<impl, stateCache, redis, lastOp, steps, log, ptopic, position,
                   handle, resolved, committed, alive>>
    /\ UNCHANGED extraVars

\* heartbeat() rejects: the task rejects, Promise.all rejects at once and
\* handleBatch logs the error and returns while the sibling tasks go on
HeartbeatFail(p, i) ==
    /\ alive
    /\ i \in 1..Len(tasks[p])
    /\ tasks[p][i].phase = "heartbeat"
    /\ tasks' = [tasks EXCEPT ![p][i].phase = "rejected"]
    /\ IF handle[p] = "running"
       THEN /\ handle' = [handle EXCEPT ![p] = "idle"]
            /\ position' = [position EXCEPT ![p] = Len(log[p])]
       ELSE UNCHANGED <<handle, position>>
    /\ UNCHANGED <<impl, stateCache, redis, lastOp, steps, log, ptopic, resolved,
                   committed, alive>>
    /\ UNCHANGED extraVars

\* await commitOffsetsIfNecessary(): the consumer group commits the offsets
\* resolved so far, of every partition, when its commit policy says so
CommitOffsets(p) ==
    /\ alive
    /\ handle[p] = "running"
    /\ PromiseAll(tasks[p])
    /\ \E necessary \in BOOLEAN :
         committed' = IF necessary
                      THEN [q \in Partitions |-> Max(resolved[q] \cup {committed[q]})]
                      ELSE committed
    /\ handle' = [handle EXCEPT ![p] = "committing"]
    /\ UNCHANGED <<impl, stateCache, redis, lastOp, steps, log, ptopic, position,
                   tasks, resolved, alive>>
    /\ UNCHANGED extraVars

\* handleBatch returns; the consumer goes on after the batch
BatchReturn(p) ==
    /\ alive
    /\ handle[p] = "committing"
    /\ handle' = [handle EXCEPT ![p] = "idle"]
    /\ position' = [position EXCEPT ![p] = Len(log[p])]
    /\ UNCHANGED <<impl, stateCache, redis, lastOp, steps, log, ptopic, tasks,
                   resolved, committed, alive>>
    /\ UNCHANGED extraVars

InitIngest ==
    /\ impl = "batch"
    /\ stateCache = EmptyMap
    /\ redis = EmptyMap
    /\ lastOp = NoOp
    /\ steps = 0
    /\ \E t1, t2 \in IngestTopics, n1 \in 0..MaxLog :
         \E n2 \in 0..(MaxLog - n1) :
           \E l1 \in [1..n1 -> TopicMessages(t1)], l2 \in [1..n2 -> TopicMessages(t2)] :
              /\ ptopic = [p \in Partitions |-> IF p = "P1" THEN t1 ELSE t2]
              /\ log = [p \in Partitions |-> IF p = "P1" THEN l1 ELSE l2]
    /\ position = [p \in Partitions |-> 0]
    /\ handle = [p \in Partitions |-> "idle"]
    /\ tasks = [p \in Partitions |-> <<>>]
    /\ resolved = [p \in Partitions |-> {}]
    /\ committed = [p \in Partitions |-> 0]
    /\ alive = TRUE
    /\ InitExtra

NextIngest ==
    \/ \E p \in Partitions : StartBatch(p)
    \/ \E p \in Partitions, i \in 1..MaxLog : TaskResume(p, i)
    \/ \E p \in Partitions, i \in 1..MaxLog : HeartbeatOk(p, i)
    \/ \E p \in Partitions, i \in 1..MaxLog : HeartbeatFail(p, i)
    \/ \E p \in Partitions : CommitOffsets(p)
    \/ \E p \in Partitions : BatchReturn(p)

SpecIngest == InitIngest /\ [][NextIngest]_vars

(***************************************************************************)
(* Flush, crash and restart of the batch consumer                          *)
(***************************************************************************)
\* the cache keys flushCacheToRedis writes, each with its Redis key
FlushedKeys ==
    {<<DistrictKey(d), DistrictStateKey(d)>> : d \in {"D1", "D2", "district-centro"}}
    \cup {<<"publicTransport", "city:publicTransport">>,
          <<"emergencyServices", "city:emergencyServices">>,
          <<"cityGraph", "city:graph">>,
          <<"vehicles", "city:vehicles">>}

\* operationCount: the number of pipeline.set commands of a flush
operationCount(cache) == Cardinality({pr \in FlushedKeys : pr[1] \in DOMAIN cache})

\* JSON.stringify(value) of a cache entry
StringifyEntry(key, value) ==
    IF key = "vehicles" THEN StringifyAll(value)
    ELSE IF key \in {"publicTransport", "emergencyServices", "cityGraph"} THEN value
    ELSE StringifyDistrict(value)

\* the pipeline sets the district keys only
flushDistrictsOnly(cache, store) ==
    LET written == {pr \in FlushedKeys : pr[1] \in DOMAIN cache /\ pr[2] \notin
                       {"city:publicTransport", "city:emergencyServices",
                        "city:graph", "city:vehicles"}}
        source(k) == (CHOOSE pr \in written : pr[2] = k)[1]
    IN  [k \in (DOMAIN store) \cup {pr[2] : pr \in written} |->
            IF \E pr \in written : pr[2] = k
            THEN StringifyEntry(source(k), cache[source(k)])
            ELSE store[k]]

\* the pipeline sets one Redis key per cache entry
flushCacheToRedis(cache, store) ==
    LET written == {pr \in FlushedKeys : pr[1] \in DOMAIN cache}
        source(k) == (CHOOSE pr \in written : pr[2] = k)[1]
    IN  [k \in (DOMAIN store) \cup {pr[2] : pr \in written} |->
            IF \E pr \in written : pr[2] = k
            THEN StringifyEntry(source(k), cache[source(k)])
            ELSE store[k]]

\* RedisStateManager.getCompleteState: every stored key is read; a shared
\* collection that was never stored is empty
getCompleteState(store) ==
    [districts |-> {store[DistrictStateKey(d)] :
                       d \in {e \in {"D1", "D2", "district-centro"} :
                                 DistrictStateKey(e) \in DOMAIN store}},
     publicTransport |-> IF "city:publicTransport" \in DOMAIN store
                         THEN store["city:publicTransport"]
                         ELSE [buses |-> <<>>, stations |-> <<>>],
     emergencyServices |-> IF "city:emergencyServices" \in DOMAIN store
                           THEN store["city:emergencyServices"]
                           ELSE [incidents |-> <<>>, units |-> <<>>],
     cityGraph |-> IF "city:graph" \in DOMAIN store
                   THEN store["city:graph"]
                   ELSE [nodes |-> <<>>, edges |-> <<>>]]

\* the districts and three shared entries are cached; vehicles are not
loadStateToCache(store) ==
    LET state == getCompleteState(store)
        loaded == {DistrictKey(district.districtId) : district \in state.districts}
    IN  [k \in loaded \cup {"publicTransport", "emergencyServices", "cityGraph"} |->
            CASE k = "publicTransport" -> state.publicTransport
              [] k = "emergencyServices" -> state.emergencyServices
              [] k = "cityGraph" -> state.cityGraph
              [] OTHER -> CHOOSE district \in state.districts :
                             DistrictKey(district.districtId) = k]

\* the flush leaves the vehicles out
FlushWithoutVehicles ==
    /\ alive
    /\ stopPhase = "running"
    /\ DOMAIN stateCache # {}
    /\ redis' = flushCacheToRedis([k \in (DOMAIN stateCache) \ {"vehicles"} |-> stateCache[k]],
                                  redis)
    /\ flushResult' = [last |-> "ok", previous |-> flushResult.last]
    /\ UNCHANGED <<impl, stateCache, lastOp, steps, log, ptopic, position, handle,
                   tasks, resolved, committed, alive, stopPhase>>
    /\ UNCHANGED <<notifVars, outerVars>>
    /\ changeCounter' = incrementChangeCounter(changeCounter, operationCount(stateCache))
    /\ UNCHANGED <<peerCache, hubVars>>

\* the flush timer fires: if (stateCache.size === 0) return; pipeline.exec()
Flush ==
    /\ alive
    /\ stopPhase = "running"
    /\ DOMAIN stateCache # {}
    /\ redis' = flushCacheToRedis(stateCache, redis)
    /\ flushResult' = [last |-> "ok", previous |-> flushResult.last]
    /\ UNCHANGED <<impl, stateCache, lastOp, steps, log, ptopic, position, handle,
                   tasks, resolved, committed, alive, stopPhase>>
    /\ UNCHANGED <<notifVars, outerVars>>
    /\ changeCounter' = incrementChangeCounter(changeCounter, operationCount(stateCache))
    /\ UNCHANGED <<peerCache, hubVars>>

\* a flush whose rejection leaves the timer callback uncaught
FlushFailUncaught ==
    /\ alive
    /\ stopPhase = "running"
    /\ DOMAIN stateCache # {}
    /\ flushResult' = [last |-> "failed", previous |-> flushResult.last]
    /\ alive' = FALSE
    /\ UNCHANGED <<impl, stateCache, redis, lastOp, steps, log, ptopic, position, handle,
                   tasks, resolved, committed, stopPhase>>
    /\ UNCHANGED otherVars

\* the flush timer fires and pipeline.exec() rejects: the error is logged;
\* the commands that reached Redis before the failure have been executed
FlushFail ==
    /\ alive
    /\ stopPhase = "running"
    /\ DOMAIN stateCache # {}
    /\ \E reached \in SUBSET {pr[2] : pr \in {x \in FlushedKeys : x[1] \in DOMAIN stateCache}} :
         redis' = [k \in (DOMAIN redis) \cup reached |->
                     IF k \in reached
                     THEN flushCacheToRedis(stateCache, redis)[k]
                     ELSE redis[k]]
    /\ flushResult' = [last |-> "failed", previous |-> flushResult.last]
    /\ UNCHANGED <<impl, stateCache, lastOp, steps, log, ptopic, position, handle,
                   tasks, resolved, committed, alive, stopPhase>>
    /\ UNCHANGED otherVars

\* stop(): clearInterval(flushTimer), then the final flush (nothing is
\* written when the cache is empty or when the pipeline rejects)
StopFlush ==
    /\ alive
    /\ stopPhase = "running"
    /\ \E ok \in BOOLEAN :
         /\ redis' = IF ok /\ DOMAIN stateCache # {}
                      THEN flushCacheToRedis(stateCache, redis)
                      ELSE redis
         /\ flushResult' = [last |-> IF ok THEN "ok" ELSE "failed",
                            previous |-> flushResult.last]
         /\ UNCHANGED <<notifVars, outerVars>>
         /\ changeCounter' = IF ok /\ DOMAIN stateCache # {}
                              THEN incrementChangeCounter(changeCounter,
                                                          operationCount(stateCache))
                              ELSE changeCounter
    /\ stopPhase' = "flushed"
    /\ UNCHANGED <<impl, stateCache, lastOp, steps, log, ptopic, position, handle,
                   tasks, resolved, committed, alive>>
    /\ UNCHANGED <<peerCache, hubVars>>

\* stop(): await consumer.disconnect() returns once the running eachBatch
\* calls have returned; isRunning = false
StopDisconnect ==
    /\ alive
    /\ stopPhase = "flushed"
    /\ \A p \in Partitions : handle[p] = "idle"
    /\ stopPhase' = "stopped"
    /\ UNCHANGED <<impl, stateCache, redis, lastOp, steps, log, ptopic, position,
                   handle, tasks, resolved, committed, alive, flushResult>>
    /\ UNCHANGED otherVars

\* the process dies: the cache, the running calls and the resolved offsets
\* are lost; Redis and the committed offsets stay
Crash ==
    /\ alive
    /\ alive' = FALSE
    /\ stateCache' = EmptyMap
    /\ handle' = [p \in Partitions |-> "idle"]
    /\ tasks' = [p \in Partitions |-> <<>>]
    /\ resolved' = [p \in Partitions |-> {}]
    /\ UNCHANGED <<impl, redis, lastOp, steps, log, ptopic, position, committed>>
    /\ UNCHANGED extraVars

\* start(): loadStateToCache (an error is logged and the cache stays empty),
\* then the consumer resumes from the committed offset, or, with
\* fromBeginning: false, from the end of a partition that has none
Restart ==
    /\ ~alive
    /\ alive' = TRUE
    /\ \E loaded \in BOOLEAN :
         stateCache' = IF loaded THEN loadStateToCache(redis) ELSE EmptyMap
    /\ position' = [p \in Partitions |->
                      IF committed[p] > 0 THEN committed[p] ELSE Len(log[p])]
    /\ UNCHANGED <<impl, redis, lastOp, steps, log, ptopic, handle, tasks,
                   resolved, committed>>
    /\ UNCHANGED extraVars

\* the payloads of the partitions in the recovery runs: all well-formed
RecoverMessages(topic) ==
    IF topic = speedTopic
    THEN {SensorMessage("D1", "E7", 42, 1), SensorMessage("D2", "E7", 42, 1)}
    ELSE {VehicleMessage("veh-1", 50, 1, TRUE)}

InitRecover ==
    /\ impl = "batch"
    /\ stateCache = EmptyMap
    /\ redis = EmptyMap
    /\ lastOp = NoOp
    /\ steps = 0
    /\ \E t1, t2 \in {speedTopic, vehiclesTopic}, n1 \in 0..MaxLog :
         \E n2 \in 0..(MaxLog - n1) :
           \E l1 \in [1..n1 -> RecoverMessages(t1)], l2 \in [1..n2 -> RecoverMessages(t2)] :
              /\ ptopic = [p \in Partitions |-> IF p = "P1" THEN t1 ELSE t2]
              /\ log = [p \in Partitions |-> IF p = "P1" THEN l1 ELSE l2]
    /\ position = [p \in Partitions |-> 0]
    /\ handle = [p \in Partitions |-> "idle"]
    /\ tasks = [p \in Partitions |-> <<>>]
    /\ resolved = [p \in Partitions |-> {}]
    /\ committed = [p \in Partitions |-> 0]
    /\ alive = TRUE
    /\ InitExtra

NextRecover ==
    \/ \E p \in Partitions : StartBatch(p)
    \/ \E p \in Partitions, i \in 1..MaxLog : TaskResume(p, i)
    \/ \E p \in Partitions, i \in 1..MaxLog : HeartbeatOk(p, i)
    \/ \E p \in Partitions, i \in 1..MaxLog : HeartbeatFail(p, i)
    \/ \E p \in Partitions : CommitOffsets(p)
    \/ \E p \in Partitions : BatchReturn(p)
    \/ Flush
    \/ Crash
    \/ Restart

SpecRecover == InitRecover /\ [][NextRecover]_vars

\* the batch consumer until stop() has returned
NextStop ==
    \/ \E p \in Partitions : StartBatch(p)
    \/ \E p \in Partitions, i \in 1..MaxLog : TaskResume(p, i)
    \/ \E p \in Partitions, i \in 1..MaxLog : HeartbeatOk(p, i)
    \/ \E p \in Partitions, i \in 1..MaxLog : HeartbeatFail(p, i)
    \/ \E p \in Partitions : CommitOffsets(p)
    \/ \E p \in Partitions : BatchReturn(p)
    \/ Flush
    \/ StopFlush
    \/ StopDisconnect

SpecStop == InitRecover /\ [][NextStop]_vars

\* updates applied in sequence and the ticks of the flush timer
InitFlush ==
    /\ InitApply
    /\ impl = "batch"

\* the updates applied between the ticks of the flush timer: two districts,
\* a building and two vehicles
FlushInputs ==
    {<<speedTopic, SensorMessage("D1", "E7", 42, 1)>>,
     <<speedTopic, SensorMessage("D1", "E7", 38, 2)>>,
     <<speedTopic, SensorMessage("D2", "E7", 42, 1)>>,
     <<buildingsTopic, BuildingMessage("building-hospital-1", 7, 1, TRUE)>>,
     <<vehiclesTopic, VehicleMessage("veh-1", 50, 1, TRUE)>>,
     <<vehiclesTopic, VehicleMessage("veh-1", 60, 2, TRUE)>>,
     <<vehiclesTopic, VehicleMessage("veh-2", 50, 1, TRUE)>>}

ApplyBetweenTicks == ApplyOneOf(FlushInputs)

NextFlush ==
    \/ ApplyBetweenTicks
    \/ Flush
    \/ FlushFail

SpecFlush == InitFlush /\ [][NextFlush]_vars

(***************************************************************************)
(* Properties of the batch ingestion                                       *)
(***************************************************************************)
SensorTopics == {speedTopic, weatherTopic, cameraTopic}

\* the message parses, carries its identity fields and its processing
\* does not throw
WellFormed(topic, data) ==
    /\ data.value = "json"
    /\ CASE topic \in SensorTopics -> data.district_id # "" /\ data.edge_id # ""
         [] topic = buildingsTopic -> data.building_id # "" /\ data.blocks
         [] topic = vehiclesTopic -> data.vehicle_id # "" /\ data.blocks
         [] OTHER -> FALSE

HasId(array, field, id) == \E i \in 1..Len(array) : array[i][field] = id

\* the entity the message is about is in the cache
EffectPresent(cache, topic, data) ==
    CASE topic \in SensorTopics ->
            /\ DistrictKey(data.district_id) \in DOMAIN cache
            /\ LET district == cache[DistrictKey(data.district_id)]
               IN  \/ HasId(district.sensors, "sensorId", "speed-" \o data.edge_id)
                   \/ HasId(district.sensors, "sensorId", "camera-" \o data.edge_id)
                   \/ HasId(district.weatherStations, "stationId",
                            "weather-" \o data.edge_id)
      [] topic = buildingsTopic ->
            /\ DistrictKey(extractDistrictFromBuildingId(data.building_id)) \in DOMAIN cache
            /\ HasId(cache[DistrictKey(extractDistrictFromBuildingId(data.building_id))].buildings,
                     "buildingId", data.building_id)
      [] topic = vehiclesTopic ->
            /\ "vehicles" \in DOMAIN cache
            /\ HasId(cache["vehicles"], "vehicleId", data.vehicle_id)
      [] OTHER -> FALSE

\* the shard whose cache entry the message's update is applied to: the
\* district of a sensor or building update, 'shared' for the vehicles;
\* "" when the message changes nothing
ShardKey(topic, data) ==
    CASE data.value # "json" -> ""
      [] topic \in SensorTopics ->
            IF data.district_id # "" /\ data.edge_id # "" THEN data.district_id ELSE ""
      [] topic = buildingsTopic ->
            IF data.building_id # "" THEN extractDistrictFromBuildingId(data.building_id)
            ELSE ""
      [] topic = vehiclesTopic ->
            IF data.vehicle_id # "" /\ data.blocks THEN "shared" ELSE ""
      [] OTHER -> ""

\* the messages a bucket task has applied so far
TaskCur(ts, i) == IF i \in 1..Len(ts) THEN ts[i].cur ELSE 0

\* the task has applied a message of the shard and has another one to apply
MidShard(t, topic, shard) ==
    \E a \in 1..t.cur, b \in (t.cur + 1)..Len(t.messages) :
        /\ ShardKey(topic, t.messages[a].payload) = shard
        /\ ShardKey(topic, t.messages[b].payload) = shard

\* C1: whenever a bucket task applies a message of a shard, no other task,
\* of the same handleBatch call or of a concurrently running one, is between
\* its first and its last application of a message of that shard.
C1_OneWriterPerShard ==
    [][\A p \in Partitions : \A i \in 1..Len(tasks'[p]) :
          tasks'[p][i].cur > TaskCur(tasks[p], i) =>
             LET shard == ShardKey(ptopic[p],
                                   tasks'[p][i].messages[tasks'[p][i].cur].payload)
             IN  shard # "" =>
                    \A q \in Partitions : \A j \in 1..Len(tasks'[q]) :
                        <<q, j>> # <<p, i>> =>
                           ~MidShard(tasks'[q][j], ptopic[q], shard)]_vars

\* the offsets of the messages in the buckets of the partition's handleBatch call
BatchOffsets(p) ==
    {tasks[p][i].messages[k].offset :
        <<i, k>> \in {pr \in (1..MaxLog + 1) \X (1..MaxLog + 1) :
                         /\ pr[1] <= Len(tasks[p])
                         /\ pr[2] <= Len(tasks[p][pr[1]].messages)}}

\* every bucket task of the call has applied all of its messages
AllHandled(p) ==
    \A i \in 1..Len(tasks[p]) : tasks[p][i].cur = Len(tasks[p][i].messages)

\* C2: an offset of a batch is resolved or committed only when every
\* message of that batch has been applied to the cache or dropped.
C2_ConsumedAfterBatch ==
    \A p \in Partitions :
        (\E o \in BatchOffsets(p) : o \in resolved[p] \/ o <= committed[p])
           => AllHandled(p)

\* C3: while the consumer runs, the effect of every well-formed message at
\* or below the committed offset of its partition is in the cache, also
\* after a crash and a restart from the durable store.
C3_AcknowledgedPresent ==
    alive =>
       \A p \in Partitions : \A k \in 1..Len(log[p]) :
           (k <= committed[p] /\ WellFormed(ptopic[p], log[p][k]))
              => EffectPresent(stateCache, ptopic[p], log[p][k])

\* handleBatch was called for the partition's batch
Started(p) == handle[p] # "idle" \/ position[p] = Len(log[p])

\* C4: once the bucket tasks of a batch have gone through their messages,
\* every well-formed message that follows a malformed one in the batch is
\* in the cache; a bucket task does not end before its last message.
C4_LaterMessagesApplied ==
    \A p \in Partitions :
        /\ \A i \in 1..Len(tasks[p]) :
              tasks[p][i].phase # "process" =>
                 tasks[p][i].cur = Len(tasks[p][i].messages)
        /\ (Started(p) /\ AllHandled(p)) =>
              \A j, k \in 1..Len(log[p]) :
                  (/\ j < k
                   /\ ~WellFormed(ptopic[p], log[p][j])
                   /\ WellFormed(ptopic[p], log[p][k]))
                     => EffectPresent(stateCache, ptopic[p], log[p][k])

\* a batch reached its commit after the processing of a message threw, and
\* the well-formed message behind it was applied
C4_Witness ==
    \E p \in Partitions :
        /\ handle[p] = "committing"
        /\ \E k \in 2..Len(log[p]) :
              /\ ProcessThrows(ptopic[p], log[p][k - 1])
              /\ WellFormed(ptopic[p], log[p][k])
              /\ EffectPresent(stateCache, ptopic[p], log[p][k])

\* the district id a message carries
CarriedDistrictId(data) ==
    IF data.districtId # "" THEN data.districtId ELSE data.district_id

\* C5: the buckets of a batch hold every parseable message exactly once,
\* each under the district id it carries or under 'shared' when it carries
\* none, never two districts in one bucket, in the order of the batch.
C5_BucketPerDistrict ==
    \A p \in Partitions :
        /\ \A i \in 1..Len(tasks[p]) :
              LET t == tasks[p][i]
              IN  /\ \A a \in 1..Len(t.messages) :
                        t.key = (IF CarriedDistrictId(t.messages[a].payload) # ""
                                 THEN CarriedDistrictId(t.messages[a].payload)
                                 ELSE "shared")
                  /\ \A a, b \in 1..Len(t.messages) :
                        /\ CarriedDistrictId(t.messages[a].payload)
                              = CarriedDistrictId(t.messages[b].payload)
                        /\ a < b => t.messages[a].offset < t.messages[b].offset
        /\ handle[p] # "idle" =>
              \A k \in (position[p] + 1)..Len(log[p]) :
                  log[p][k].value = "json" =>
                     Cardinality({i \in 1..Len(tasks[p]) :
                                     \E a \in 1..Len(tasks[p][i].messages) :
                                         tasks[p][i].messages[a].offset = k}) = 1

EntityId(topic, data) ==
    CASE data.value # "json" -> ""
      [] topic \in SensorTopics ->
            IF data.district_id # "" /\ data.edge_id # ""
            THEN data.district_id \o "/" \o data.edge_id ELSE ""
      [] topic = buildingsTopic -> data.building_id
      [] topic = vehiclesTopic -> data.vehicle_id
      [] OTHER -> ""

\* the first n messages handled one per batch: each handleBatch call has one
\* bucket with one message and applies it before the next call starts
RECURSIVE OneAtATime(_, _, _, _)
OneAtATime(cache, topic, messages, n) ==
    IF n = 0 THEN cache
    ELSE processMessageInMemory(OneAtATime(cache, topic, messages, n - 1),
                                topic, messages[n])

\* the partition's messages are all updates of one entity
SharesOneEntity(p) ==
    /\ Len(log[p]) > 0
    /\ EntityId(ptopic[p], log[p][1]) # ""
    /\ \A k \in 1..Len(log[p]) :
          EntityId(ptopic[p], log[p][k]) = EntityId(ptopic[p], log[p][1])

RECURSIVE ApplyBatch(_, _, _, _)
ApplyBatch(cache, topic, batch, n) ==
    IF n = 0 THEN cache
    ELSE processMessageInMemory(ApplyBatch(cache, topic, batch, n - 1), topic, batch[n])

\* the payloads of the topic among the inputs
InputsOf(topic) == {in[2] : in \in {x \in BatchInputs : x[1] = topic}}

\* C13: for the cache before a message is applied and every batch of the
\* message's topic that begins with it, applying the batch twice leaves
\* the cache that applying it once leaves.
C13_ReplayIdempotent ==
    [][(impl = "batch" /\ steps' = steps + 1) =>
          \A second, third \in InputsOf(lastOp'.topic) :
              LET B == <<lastOp'.data, second, third>>
                  once == ApplyBatch(stateCache, lastOp'.topic, B, 3)
              IN  /\ stateCache' = ApplyBatch(stateCache, lastOp'.topic, B, 1)
                  /\ ApplyBatch(stateCache', lastOp'.topic, B, 1) = stateCache'
                  /\ ApplyBatch(once, lastOp'.topic, B, 3) = once
      ]_vars

\* a second and a third update of speed sensor E7 of district D1 were
\* applied to a cache that held it
C13_Witness ==
    /\ impl = "batch"
    /\ steps = 3
    /\ lastOp.topic = speedTopic
    /\ lastOp.data.district_id = "D1"
    /\ lastOp.data.timestamp = 1
    /\ DistrictKey("D1") \in DOMAIN stateCache
    /\ Len(stateCache[DistrictKey("D1")].sensors) = 1
    /\ stateCache[DistrictKey("D1")].sensors[1].lastUpdated = NewDate(1)
    /\ stateCache[DistrictKey("D1")].location.centerLatitude = 42

(***************************************************************************)
(* Properties of the flush                                                 *)
(***************************************************************************)
\* the Redis document of every cache entry is the serialised entry
StoreHoldsCache(cache, store) ==
    \A pr \in FlushedKeys :
        pr[1] \in DOMAIN cache =>
           /\ pr[2] \in DOMAIN store
           /\ store[pr[2]] = StringifyEntry(pr[1], cache[pr[1]])

\* C14: a tick whose pipeline rejects leaves the cache as it was and the
\* process running, with the timer still armed; a tick whose pipeline
\* succeeds leaves in Redis the serialised value of every cache entry,
\* whatever the ticks before it did.
C14_FailedFlushRetried ==
    [][/\ flushResult'.last = "failed" /\ flushResult' # flushResult =>
             /\ stateCache' = stateCache
             /\ alive'
             /\ DOMAIN stateCache' # {}
       /\ (flushResult'.last = "ok" /\ (flushResult' # flushResult \/ redis' # redis)) =>
             /\ stateCache' = stateCache
             /\ StoreHoldsCache(stateCache, redis')
      ]_vars

\* a flush succeeded right after a failed one, with vehicles and a district
\* in the cache
C14_Witness ==
    /\ flushResult = [last |-> "ok", previous |-> "failed"]
    /\ "vehicles" \in DOMAIN stateCache
    /\ \E d \in DistrictIds : DistrictKey(d) \in DOMAIN stateCache
    /\ StoreHoldsCache(stateCache, redis)

\* a tick of the flush timer that ended without an error
FlushedOk == flushResult'.last = "ok" /\ (flushResult' # flushResult \/ redis' # redis)

\* C15: after a successful flush the store holds the serialised value of
\* every cache entry, and as long as no update changes the cache every
\* further tick, successful or not, leaves the store as it is.
C15_StoreEqualsCache ==
    [][stateCache' = stateCache =>
          /\ FlushedOk => StoreHoldsCache(stateCache', redis')
          /\ StoreHoldsCache(stateCache, redis) =>
                /\ StoreHoldsCache(stateCache', redis')
                /\ redis' = redis
      ]_vars

\* two successful ticks in a row with a district and the vehicles cached
C15_Witness ==
    /\ flushResult = [last |-> "ok", previous |-> "ok"]
    /\ steps >= 2
    /\ "vehicles" \in DOMAIN stateCache
    /\ DistrictKey("D1") \in DOMAIN stateCache
    /\ redis[DistrictStateKey("D1")] = StringifyDistrict(stateCache[DistrictKey("D1")])
    /\ redis["city:vehicles"] = StringifyAll(stateCache["vehicles"])

\* C16: a restart that loads the store leaves in the cache, for every
\* flushed key of the store (districts, publicTransport, emergencyServices,
\* cityGraph, vehicles), an entry equal to the persisted document.
C16_RehydrateAllKeys ==
    [][(~alive /\ alive' /\ stateCache' # EmptyMap) =>
          \A pr \in FlushedKeys :
              pr[2] \in DOMAIN redis =>
                 /\ pr[1] \in DOMAIN stateCache'
                 /\ stateCache'[pr[1]] = redis[pr[2]]
      ]_vars

(***************************************************************************)
(* Properties of stop()                                                    *)
(***************************************************************************)
\* C17: when stop() has returned after a final flush that succeeded, the
\* store holds the serialised value of every cache entry: no update was
\* applied to the cache after the final flush serialised it.
C17_StopFlushesLast ==
    (stopPhase = "stopped" /\ flushResult.last = "ok")
       => StoreHoldsCache(stateCache, redis)

(***************************************************************************)
(* Two instances of the batch consumer on one Redis.  The partitions are   *)
(* split so that no shard is consumed by both: this instance consumes the  *)
(* updates of district D1 and of the vehicles, the peer those of D2 and of *)
(* the buildings.                                                          *)
(***************************************************************************)
OwnInputs ==
    {<<speedTopic, SensorMessage("D1", "E7", 42, 1)>>,
     <<speedTopic, SensorMessage("D1", "E7", 38, 2)>>,
     <<vehiclesTopic, VehicleMessage("veh-1", 50, 1, TRUE)>>}

PeerInputs ==
    {<<speedTopic, SensorMessage("D2", "E7", 42, 1)>>,
     <<buildingsTopic, BuildingMessage("building-hospital-1", 7, 1, TRUE)>>}

\* this instance applies a message of one of its partitions
OwnApply ==
    /\ alive
    /\ steps < MaxSteps
    /\ \E in \in OwnInputs :
          /\ stateCache' = processMessageInMemory(stateCache, in[1], in[2])
          /\ lastOp' = [topic |-> in[1], data |-> in[2], now |-> 0]
    /\ steps' = steps + 1
    /\ UNCHANGED <<impl, redis, flushResult, stopPhase, peerCache>>
    /\ UNCHANGED ingestVars
    /\ UNCHANGED hubVars
    /\ UNCHANGED <<snapshotVars, notifVars, outerVars>>

\* the peer starts (or restarts): start() calls loadStateToCache
PeerStart ==
    /\ peerCache' = loadStateToCache(redis)
    /\ UNCHANGED <<impl, stateCache, redis, lastOp, steps, flushResult, stopPhase>>
    /\ UNCHANGED ingestVars
    /\ UNCHANGED hubVars
    /\ UNCHANGED <<snapshotVars, notifVars, outerVars>>

\* the started peer applies a message of one of its partitions
PeerApply ==
    /\ DOMAIN peerCache # {}
    /\ steps < MaxSteps
    /\ \E in \in PeerInputs :
          /\ peerCache' = processMessageInMemory(peerCache, in[1], in[2])
          /\ lastOp' = [topic |-> in[1], data |-> in[2], now |-> 0]
    /\ steps' = steps + 1
    /\ UNCHANGED <<impl, stateCache, redis, flushResult, stopPhase>>
    /\ UNCHANGED ingestVars
    /\ UNCHANGED hubVars
    /\ UNCHANGED <<snapshotVars, notifVars, outerVars>>

\* the flush timer of the peer fires
PeerFlush ==
    /\ DOMAIN peerCache # {}
    /\ redis' = flushCacheToRedis(peerCache, redis)
    /\ UNCHANGED <<impl, stateCache, lastOp, steps, flushResult, stopPhase, peerCache>>
    /\ UNCHANGED ingestVars
    /\ UNCHANGED hubVars
    /\ UNCHANGED <<snapshotVars, notifVars, outerVars>>

InitInstances ==
    /\ InitApply
    /\ impl = "batch"

NextInstances ==
    \/ OwnApply
    \/ Flush
    \/ PeerStart
    \/ PeerApply
    \/ PeerFlush

SpecInstances == InitInstances /\ [][NextInstances]_vars

\* C18: the Redis document of a district is only ever replaced by the
\* serialised cache entry of the instance that consumes the district's
\* updates (D1: this instance, D2: the peer), so no flush puts back a
\* document that misses updates of the owner.
C18_OwnerWritesShard ==
    [][/\ (/\ DistrictStateKey("D1") \in DOMAIN redis
           /\ redis'[DistrictStateKey("D1")] # redis[DistrictStateKey("D1")])
             => /\ DistrictKey("D1") \in DOMAIN stateCache
                /\ redis'[DistrictStateKey("D1")]
                      = StringifyDistrict(stateCache[DistrictKey("D1")])
       /\ (/\ DistrictStateKey("D2") \in DOMAIN redis
           /\ redis'[DistrictStateKey("D2")] # redis[DistrictStateKey("D2")])
             => /\ DistrictKey("D2") \in DOMAIN peerCache
                /\ redis'[DistrictStateKey("D2")]
                      = StringifyDistrict(peerCache[DistrictKey("D2")])
      ]_vars

(***************************************************************************)
(* WebSocket hub (WebSocketHandler).  A City is the result of              *)
(* getCompleteState; the districts are matched by districtId.              *)
(***************************************************************************)
Clients == {"s1", "s2"}

\* delete entity[name] for every name
StripFields(entity, names) == [f \in (DOMAIN entity) \ names |-> entity[f]]

StripAll(array, names) == [i \in 1..Len(array) |-> StripFields(array[i], names)]

\* JSON.parse(JSON.stringify(state))
JsonCopy(state) == [state EXCEPT !.districts = {StringifyDistrict(d) : d \in @}]

\* a copy that keeps the lastUpdated of the sensors
normalizeKeepSensorTimes(state) ==
    LET copy == JsonCopy(state)
    IN  [districts |->
            {[StripFields(d, {"lastUpdated"}) EXCEPT
                 !.buildings = StripAll(@, {"lastUpdated"}),
                 !.weatherStations = StripAll(@, {"lastUpdated"})] : d \in copy.districts},
         publicTransport |->
            [buses |-> StripAll(copy.publicTransport.buses, {"lastUpdated"}),
             stations |-> StripAll(copy.publicTransport.stations, {"lastUpdated"})],
         emergencyServices |->
            [incidents |-> StripAll(copy.emergencyServices.incidents,
                                    {"reportedAt", "lastUpdated"}),
             units |-> StripAll(copy.emergencyServices.units, {"lastUpdated"})],
         cityGraph |->
            [nodes |-> copy.cityGraph.nodes,
             edges |-> StripAll(copy.cityGraph.edges, {"lastUpdated"})]]

\* the copy of the state without the timestamps that change on every update
normalizeStateForDiff(state) ==
    LET copy == JsonCopy(state)
    IN  [districts |->
            {[StripFields(d, {"lastUpdated"}) EXCEPT
                 !.sensors = StripAll(@, {"lastUpdated"}),
                 !.buildings = StripAll(@, {"lastUpdated"}),
                 !.weatherStations = StripAll(@, {"lastUpdated"})] : d \in copy.districts},
         publicTransport |->
            [buses |-> StripAll(copy.publicTransport.buses, {"lastUpdated"}),
             stations |-> StripAll(copy.publicTransport.stations, {"lastUpdated"})],
         emergencyServices |->
            [incidents |-> StripAll(copy.emergencyServices.incidents,
                                    {"reportedAt", "lastUpdated"}),
             units |-> StripAll(copy.emergencyServices.units, {"lastUpdated"})],
         cityGraph |->
            [nodes |-> copy.cityGraph.nodes,
             edges |-> StripAll(copy.cityGraph.edges, {"lastUpdated"})]]

\* the three value deltas of jsondiffpatch: [new] for an added member,
\* [old, new] for a changed one, [old, 0, 0] for a deleted one
Added(new) == [op |-> "added", new |-> new]

Modified(old, new) == [op |-> "modified", old |-> old, new |-> new]

Deleted(old) == [op |-> "deleted", old |-> old]

\* the delta of a member that is itself an object or an array
Nested(delta) == [op |-> "nested", delta |-> delta]

\* jsondiffpatch of two objects
ObjectDelta(old, new) ==
    [f \in {g \in (DOMAIN old) \cup (DOMAIN new) :
               g \notin DOMAIN old \/ g \notin DOMAIN new \/ old[g] # new[g]} |->
        IF f \notin DOMAIN old THEN Added(new[f])
        ELSE IF f \notin DOMAIN new THEN Deleted(old[f])
        ELSE Modified(old[f], new[f])]

Ids(array, field) == {array[i][field] : i \in 1..Len(array)}

Element(array, field, id) == array[FindIndex(array, field, id)]

\* jsondiffpatch of two arrays whose elements objectHash matches by an id
ArrayDelta(old, new, field) ==
    [id \in {x \in Ids(old, field) \cup Ids(new, field) :
                \/ x \notin Ids(old, field)
                \/ x \notin Ids(new, field)
                \/ Element(old, field, x) # Element(new, field, x)} |->
        IF id \notin Ids(old, field) THEN Added(Element(new, field, id))
        ELSE IF id \notin Ids(new, field) THEN Deleted(Element(old, field, id))
        ELSE Nested(ObjectDelta(Element(old, field, id), Element(new, field, id)))]

\* objectHash knows id, sensorId, districtId, buildingId, busId and
\* incidentId; every other element is matched by its JSON text, so a changed
\* element is a deleted and an added one
WholeDelta(old, new) ==
    [removed |-> {old[i] : i \in 1..Len(old)} \ {new[i] : i \in 1..Len(new)},
     added |-> {new[i] : i \in 1..Len(new)} \ {old[i] : i \in 1..Len(old)}]

\* the delta of a district when objectHash does not know sensorId
DistrictDeltaByText(old, new) ==
    [f \in {g \in (DOMAIN old) \cup (DOMAIN new) :
               g \notin DOMAIN old \/ g \notin DOMAIN new \/ old[g] # new[g]} |->
        IF f \notin DOMAIN old THEN Added(new[f])
        ELSE IF f \notin DOMAIN new THEN Deleted(old[f])
        ELSE IF f \in {"sensors", "buildings", "weatherStations"}
        THEN Nested(WholeDelta(old[f], new[f]))
        ELSE Modified(old[f], new[f])]

DistrictDelta(old, new) ==
    [f \in {g \in (DOMAIN old) \cup (DOMAIN new) :
               g \notin DOMAIN old \/ g \notin DOMAIN new \/ old[g] # new[g]} |->
        IF f \notin DOMAIN old THEN Added(new[f])
        ELSE IF f \notin DOMAIN new THEN Deleted(old[f])
        ELSE IF f = "sensors" THEN Nested(ArrayDelta(old[f], new[f], "sensorId"))
        ELSE IF f = "buildings" THEN Nested(ArrayDelta(old[f], new[f], "buildingId"))
        ELSE IF f = "weatherStations" THEN Nested(WholeDelta(old[f], new[f]))
        ELSE Modified(old[f], new[f])]

DistrictOf(state, id) == CHOOSE d \in state.districts : d.districtId = id

DistrictIdsOf(state) == {d.districtId : d \in state.districts}

Undefined == [undefined |-> TRUE]

\* diffPatcher.diff(left, right): undefined when the two are equal
Diff(left, right) ==
    IF left = right THEN Undefined
    ELSE [f \in {g \in {"districts", "publicTransport", "emergencyServices", "cityGraph"} :
                    left[g] # right[g]} |->
            IF f # "districts" THEN Modified(left[f], right[f])
            ELSE Nested(
                 [id \in {x \in DistrictIdsOf(left) \cup DistrictIdsOf(right) :
                             \/ x \notin DistrictIdsOf(left)
                             \/ x \notin DistrictIdsOf(right)
                             \/ DistrictOf(left, x) # DistrictOf(right, x)} |->
                    IF id \notin DistrictIdsOf(left) THEN Added(DistrictOf(right, id))
                    ELSE IF id \notin DistrictIdsOf(right)
                    THEN Deleted(DistrictOf(left, id))
                    ELSE Nested(DistrictDelta(DistrictOf(left, id),
                                              DistrictOf(right, id)))])]

\* the sensor events consumed while the hub runs: a reading, a new reading,
\* the first reading again with a later timestamp, and a reading of a sensor
\* of another district
HubInputs ==
    {<<"sensors.environmental",
       [districtId |-> "D1", sensorId |-> "s1", type |-> "pm25", value |-> 42,
        unit |-> "ug/m3", lastUpdated |-> 1]>>,
     <<"sensors.environmental",
       [districtId |-> "D1", sensorId |-> "s1", type |-> "pm25", value |-> 38,
        unit |-> "ug/m3", lastUpdated |-> 2]>>,
     <<"sensors.environmental",
       [districtId |-> "D1", sensorId |-> "s1", type |-> "pm25", value |-> 42,
        unit |-> "ug/m3", lastUpdated |-> 2]>>,
     <<"sensors.traffic",
       [districtId |-> "D2", sensorId |-> "s2", type |-> "camera", value |-> 7,
        unit |-> "vehicles", lastUpdated |-> 1]>>}

HubUnchanged ==
    /\ UNCHANGED <<impl, stateCache, lastOp, steps, flushResult, stopPhase, peerCache>>
    /\ UNCHANGED ingestVars
    /\ UNCHANGED <<snapshotVars, notifVars, outerVars>>

\* handleMessage for a sensor event while the hub runs
HandleOneOf(inputs) ==
    /\ impl = "message"
    /\ steps < MaxSteps
    /\ \E in \in inputs :
          /\ redis' = RouteMessage(redis, in[1], in[2], 8)
          /\ lastOp' = [topic |-> in[1], data |-> in[2], now |-> 8]
    /\ steps' = steps + 1
    /\ UNCHANGED <<notifVars, outerVars>>
    /\ changeCounter' = incrementChangeCounter(changeCounter, 1)
    /\ UNCHANGED <<impl, stateCache, flushResult, stopPhase, peerCache>>
    /\ UNCHANGED ingestVars
    /\ UNCHANGED hubVars

HandleSensorMessage == HandleOneOf(HubInputs)

\* the two readings of sensor s1 with different values
Readings ==
    {in \in HubInputs : in[2].districtId = "D1" /\ (in[2].value = 42 => in[2].lastUpdated = 1)}

HandleReading == HandleOneOf(Readings)

\* io.on('connection'): the handler starts and awaits getCompleteState
Connection(c) ==
    /\ sockets[c].conn = "new"
    /\ sockets' = [sockets EXCEPT ![c] = [conn |-> "open", handler |-> "fetching"]]
    /\ UNCHANGED <<redis, lastStates, outbox, broadcast>>
    /\ HubUnchanged

\* the handler registers the socket without sending anything
SendInitialStateUnsent(c) ==
    /\ sockets[c].handler = "fetching"
    /\ lastStates' = Put(lastStates, c, getCompleteState(redis))
    /\ sockets' = [sockets EXCEPT ![c].handler = "done"]
    /\ UNCHANGED <<redis, outbox, broadcast>>
    /\ HubUnchanged

\* the handler resumes: emit('initial-state'), lastStates.set, and only now
\* socket.on('disconnect'); an emit to a closed socket is discarded
SendInitialState(c) ==
    /\ sockets[c].handler = "fetching"
    /\ LET initialState == getCompleteState(redis)
       IN  /\ outbox' = IF sockets[c].conn = "open"
                        THEN [outbox EXCEPT ![c] =
                                Append(@, [event |-> "initial-state",
                                           payload |-> JsonCopy(initialState)])]
                        ELSE outbox
           /\ lastStates' = Put(lastStates, c, initialState)
    /\ sockets' = [sockets EXCEPT ![c].handler = "done"]
    /\ UNCHANGED <<redis, broadcast>>
    /\ HubUnchanged

\* getCompleteState rejects: emit('error'), the socket is not registered
InitialStateFails(c) ==
    /\ sockets[c].handler = "fetching"
    /\ outbox' = IF sockets[c].conn = "open"
                 THEN [outbox EXCEPT ![c] = Append(@, [event |-> "error", payload |-> 0])]
                 ELSE outbox
    /\ sockets' = [sockets EXCEPT ![c].handler = "done"]
    /\ UNCHANGED <<redis, lastStates, broadcast>>
    /\ HubUnchanged

\* the client goes away; the 'disconnect' listener, if it is registered
\* already, deletes the baseline
Disconnect(c) ==
    /\ sockets[c].conn = "open"
    /\ sockets' = [sockets EXCEPT ![c].conn = "closed"]
    /\ lastStates' = IF sockets[c].handler = "done"
                     THEN [k \in (DOMAIN lastStates) \ {c} |-> lastStates[k]]
                     ELSE lastStates
    /\ UNCHANGED <<redis, outbox, broadcast>>
    /\ HubUnchanged

\* the broadcast timer fires: return when lastStates is empty, else await
\* getCompleteState
BroadcastTick ==
    /\ broadcast.phase = "idle"
    /\ DOMAIN lastStates # {}
    /\ broadcast' = [phase |-> "fetching"]
    /\ UNCHANGED <<redis, lastStates, sockets, outbox>>
    /\ HubUnchanged

\* getCompleteState has read the store
BroadcastFetched ==
    /\ broadcast.phase = "fetching"
    /\ broadcast' = [phase |-> "fetched", currentState |-> getCompleteState(redis)]
    /\ UNCHANGED <<redis, lastStates, sockets, outbox>>
    /\ HubUnchanged

\* getCompleteState rejects: the timer callback logs the error
BroadcastFails ==
    /\ broadcast.phase = "fetching"
    /\ broadcast' = [phase |-> "idle", logged |-> "Error broadcasting updates"]
    /\ UNCHANGED <<redis, lastStates, sockets, outbox>>
    /\ HubUnchanged

\* the delta of the states as stored, timestamps included
DeltaForRaw(c, currentState) == Diff(JsonCopy(lastStates[c]), JsonCopy(currentState))

\* the delta for a registered socket
DeltaFor(c, currentState) ==
    Diff(normalizeStateForDiff(lastStates[c]), normalizeStateForDiff(currentState))

\* a forEach without a try block per socket: the first throw ends it
UpdatedNoneAfterThrow(connected, failing, currentState) ==
    IF failing # {} THEN {}
    ELSE {c \in connected : DeltaFor(c, currentState) # Undefined}

\* the sockets whose try block runs to its end with a delta: a throw in the
\* block of one socket is caught inside its own callback
Updated(connected, failing, currentState) ==
    {c \in connected \ failing : DeltaFor(c, currentState) # Undefined}

\* lastStates.forEach: a socket that is gone is deleted; a socket with a
\* delta is sent 'state-update' and gets a copy of the current state; a
\* socket whose normalize, diff or emit throws is logged and left as it was
ForEachSocket(failing) ==
    /\ broadcast.phase = "fetched"
    /\ LET currentState == broadcast.currentState
           connected == {c \in DOMAIN lastStates : sockets[c].conn = "open"}
           changed == Updated(connected, failing, currentState)
       IN  /\ failing \subseteq connected
           /\ lastStates' = [c \in connected |->
                                IF c \in changed THEN JsonCopy(currentState)
                                ELSE lastStates[c]]
           /\ outbox' = [c \in Clients |->
                            IF c \in changed
                            THEN Append(outbox[c],
                                        [event |-> "state-update",
                                         payload |-> DeltaFor(c, currentState)])
                            ELSE outbox[c]]
           /\ broadcast' = [phase |-> "idle", failed |-> failing]
    /\ UNCHANGED <<redis, sockets>>
    /\ HubUnchanged

\* a forEach that keeps the entry of a socket that is gone
BroadcastSendKeepGone ==
    /\ broadcast.phase = "fetched"
    /\ LET currentState == broadcast.currentState
           connected == {c \in DOMAIN lastStates : sockets[c].conn = "open"}
           changed == Updated(connected, {}, currentState)
       IN  /\ lastStates' = [c \in DOMAIN lastStates |->
                                IF c \in changed THEN JsonCopy(currentState)
                                ELSE lastStates[c]]
           /\ outbox' = [c \in Clients |->
                            IF c \in changed
                            THEN Append(outbox[c],
                                        [event |-> "state-update",
                                         payload |-> DeltaFor(c, currentState)])
                            ELSE outbox[c]]
           /\ broadcast' = [phase |-> "idle", failed |-> {}]
    /\ UNCHANGED <<redis, sockets>>
    /\ HubUnchanged

\* the forEach in which nothing throws
BroadcastSend == ForEachSocket({})

\* the forEach in which the try block of some socket throws
BroadcastSendThrows == \E failing \in (SUBSET Clients) \ {{}} : ForEachSocket(failing)

InitHub ==
    /\ InitApply
    /\ impl = "message"

NextHub ==
    \/ HandleSensorMessage
    \/ \E c \in Clients : Connection(c)
    \/ \E c \in Clients : SendInitialState(c)
    \/ \E c \in Clients : InitialStateFails(c)
    \/ \E c \in Clients : Disconnect(c)
    \/ BroadcastTick
    \/ BroadcastFetched
    \/ BroadcastFails
    \/ BroadcastSend

SpecHub == InitHub /\ [][NextHub]_vars

\* the hub with throwing sockets, while every fetch of the state succeeds
NextHubThrows ==
    \/ HandleReading
    \/ \E c \in Clients : Connection(c)
    \/ \E c \in Clients : SendInitialState(c)
    \/ \E c \in Clients : Disconnect(c)
    \/ BroadcastTick
    \/ BroadcastFetched
    \/ BroadcastSend
    \/ BroadcastSendThrows

SpecHubThrows == InitHub /\ [][NextHubThrows]_vars

(***************************************************************************)
(* Hub properties                                                          *)
(***************************************************************************)
Events(c) == [i \in 1..Len(outbox[c]) |-> outbox[c][i].event]

\* the position of the first 'initial-state' a socket was sent, 0 if none
FirstInitial(c) ==
    IF \E i \in 1..Len(outbox[c]) : outbox[c][i].event = "initial-state"
    THEN CHOOSE i \in 1..Len(outbox[c]) :
            /\ outbox[c][i].event = "initial-state"
            /\ \A j \in 1..(i - 1) : outbox[c][j].event # "initial-state"
    ELSE 0

OutboxOrdered(c) ==
    /\ Cardinality({i \in 1..Len(outbox[c]) : outbox[c][i].event = "initial-state"}) <= 1
    /\ \A i \in 1..Len(outbox[c]) :
          outbox[c][i].event = "state-update" =>
             /\ FirstInitial(c) # 0
             /\ FirstInitial(c) < i

C20_BroadcastPerClient ==
    [][(broadcast.phase = "fetched" /\ broadcast'.phase = "idle") =>
          \A c \in DOMAIN lastStates :
             (sockets[c].conn = "open" /\ c \notin broadcast'.failed) =>
                LET last == normalizeStateForDiff(lastStates[c])
                    current == normalizeStateForDiff(broadcast.currentState)
                IN  IF last = current
                    THEN /\ outbox'[c] = outbox[c]
                         /\ c \in DOMAIN lastStates'
                         /\ lastStates'[c] = lastStates[c]
                    ELSE /\ Diff(last, current) # Undefined
                         /\ outbox'[c] = Append(outbox[c],
                                                [event |-> "state-update",
                                                 payload |-> Diff(last, current)])
                         /\ c \in DOMAIN lastStates'
                         /\ lastStates'[c] = JsonCopy(broadcast.currentState)]_vars

\* after a tick one socket has been sent an update and has the new baseline,
\* while the other, whose baseline differed only in timestamps, was sent none
C20_Witness ==
    /\ broadcast.phase = "idle"
    /\ DOMAIN lastStates = Clients
    /\ \E c, d \in Clients :
          /\ Events(c) = <<"initial-state", "state-update">>
          /\ Events(d) = <<"initial-state">>
          /\ lastStates[c] = JsonCopy(getCompleteState(redis))
          /\ lastStates[d] # lastStates[c]
          /\ normalizeStateForDiff(lastStates[d]) = normalizeStateForDiff(lastStates[c])

(***************************************************************************)
(* The client of the hub: it keeps the state of 'initial-state' and        *)
(* applies every 'state-update' to it with applyPatch.                     *)
(***************************************************************************)
RECURSIVE SetToSeq(_)
SetToSeq(set) ==
    IF set = {} THEN <<>>
    ELSE LET x == CHOOSE y \in set : TRUE
         IN  <<x>> \o SetToSeq(set \ {x})

\* diffPatcher.patch of an object
PatchObject(obj, delta) ==
    [f \in ((DOMAIN obj) \ {g \in DOMAIN delta : delta[g].op = "deleted"})
              \cup {g \in DOMAIN delta : delta[g].op \in {"added", "modified"}} |->
        IF f \in DOMAIN delta THEN delta[f].new ELSE obj[f]]

\* diffPatcher.patch of an array of identified elements: the deleted ones
\* are removed, the changed ones patched in place, the added ones inserted
\* at the end, where the handlers push them
PatchArray(array, delta, field) ==
    LET Kept(e) == ~(e[field] \in DOMAIN delta /\ delta[e[field]].op = "deleted")
        kept == SelectSeq(array, Kept)
        patched == [i \in 1..Len(kept) |->
                       IF kept[i][field] \in DOMAIN delta
                          /\ delta[kept[i][field]].op = "nested"
                       THEN PatchObject(kept[i], delta[kept[i][field]].delta)
                       ELSE kept[i]]
        added == {delta[id].new : id \in {x \in DOMAIN delta : delta[x].op = "added"}}
    IN  patched \o SetToSeq(added)

\* diffPatcher.patch of an array whose elements are matched by their text
PatchWhole(array, delta) ==
    LET Kept(e) == StripFields(e, {"lastUpdated"}) \notin delta.removed
    IN  SelectSeq(array, Kept) \o SetToSeq(delta.added)

PatchDistrict(district, delta) ==
    [f \in ((DOMAIN district) \ {g \in DOMAIN delta : delta[g].op = "deleted"})
              \cup {g \in DOMAIN delta : delta[g].op \in {"added", "modified"}} |->
        IF f \notin DOMAIN delta THEN district[f]
        ELSE IF delta[f].op # "nested" THEN delta[f].new
        ELSE IF f = "sensors" THEN PatchArray(district[f], delta[f].delta, "sensorId")
        ELSE IF f = "buildings" THEN PatchArray(district[f], delta[f].delta, "buildingId")
        ELSE PatchWhole(district[f], delta[f].delta)]

\* diffPatcher.patch(state, delta)
Patch(state, delta) ==
    [f \in DOMAIN state |->
        IF f \notin DOMAIN delta THEN state[f]
        ELSE IF f # "districts" THEN delta[f].new
        ELSE LET d == delta[f].delta
             IN  {IF x.districtId \in DOMAIN d /\ d[x.districtId].op = "nested"
                  THEN PatchDistrict(x, d[x.districtId].delta)
                  ELSE x :
                     x \in {y \in state[f] :
                               ~(y.districtId \in DOMAIN d
                                 /\ d[y.districtId].op = "deleted")}}
                 \cup {d[id].new : id \in {x \in DOMAIN d : d[x].op = "added"}}]

\* WebSocketService.applyPatch
applyPatch(currentState, patch) == Patch(JsonCopy(currentState), patch)

NoState == [cityState |-> "null"]

\* the state a client holds after the messages it was sent
RECURSIVE ClientAfter(_, _)
ClientAfter(cityState, messages) ==
    IF messages = <<>> THEN cityState
    ELSE LET m == Head(messages)
         IN  ClientAfter(
               CASE m.event = "initial-state" -> m.payload
                 [] m.event = "state-update" /\ cityState # NoState ->
                       applyPatch(cityState, m.payload)
                 [] OTHER -> cityState,
               Tail(messages))

ClientState(c) == ClientAfter(NoState, outbox[c])

\* C21: the state a connected client holds after the messages it was sent
\* equals the baseline the hub recorded for it
C21_ClientHoldsBaseline ==
    \A c \in DOMAIN lastStates :
       (sockets[c].conn = "open" /\ outbox[c] # <<>>) =>
          ClientState(c) = JsonCopy(lastStates[c])

\* the district and the sensor in which the full states differ, when they
\* differ in the reading of exactly one sensor; {} otherwise
OneSensorChanged(old, new) ==
    {pr \in {<<d.districtId, d.sensors[i].sensorId>> :
                d \in {x \in old.districts : x.sensors # <<>>},
                i \in {1}} \cup
            {<<d.districtId, d.sensors[i].sensorId>> :
                d \in {x \in old.districts : Len(x.sensors) >= 2},
                i \in {2}} :
        /\ DistrictIdsOf(new) = DistrictIdsOf(old)
        /\ [new EXCEPT !.districts = {}] = [old EXCEPT !.districts = {}]
        /\ \A id \in DistrictIdsOf(old) \ {pr[1]} : DistrictOf(new, id) = DistrictOf(old, id)
        /\ LET od == DistrictOf(old, pr[1])
               nd == DistrictOf(new, pr[1])
           IN  /\ StripFields(nd, {"sensors", "lastUpdated"})
                     = StripFields(od, {"sensors", "lastUpdated"})
               /\ Ids(nd.sensors, "sensorId") = Ids(od.sensors, "sensorId")
               /\ \A id \in Ids(od.sensors, "sensorId") \ {pr[2]} :
                     Element(nd.sensors, "sensorId", id) = Element(od.sensors, "sensorId", id)
               /\ Element(nd.sensors, "sensorId", pr[2]).value
                     # Element(od.sensors, "sensorId", pr[2]).value}

\* C22: when the state a tick fetched differs from a connected client's
\* baseline in the reading of exactly one sensor, the client is sent one
\* state-update whose only entry is that sensor of that district, and the
\* entry holds exactly the changed fields other than lastUpdated with their
\* old and new values
C22_OnlyChangedSensor ==
    [][(broadcast.phase = "fetched" /\ broadcast'.phase = "idle") =>
          \A c \in DOMAIN lastStates :
             (sockets[c].conn = "open" /\ c \notin broadcast'.failed) =>
                \A pr \in OneSensorChanged(JsonCopy(lastStates[c]),
                                           JsonCopy(broadcast.currentState)) :
                   LET old == Element(DistrictOf(JsonCopy(lastStates[c]), pr[1]).sensors,
                                      "sensorId", pr[2])
                       new == Element(DistrictOf(JsonCopy(broadcast.currentState),
                                                 pr[1]).sensors, "sensorId", pr[2])
                       changed == {f \in (DOMAIN old) \cup (DOMAIN new) :
                                      /\ f # "lastUpdated"
                                      /\ \/ f \notin DOMAIN old
                                         \/ f \notin DOMAIN new
                                         \/ old[f] # new[f]}
                       sent == outbox'[c][Len(outbox'[c])]
                   IN  /\ Len(outbox'[c]) = Len(outbox[c]) + 1
                       /\ sent.event = "state-update"
                       /\ DOMAIN sent.payload = {"districts"}
                       /\ sent.payload.districts.op = "nested"
                       /\ DOMAIN sent.payload.districts.delta = {pr[1]}
                       /\ sent.payload.districts.delta[pr[1]].op = "nested"
                       /\ DOMAIN sent.payload.districts.delta[pr[1]].delta = {"sensors"}
                       /\ sent.payload.districts.delta[pr[1]].delta.sensors.op = "nested"
                       /\ DOMAIN sent.payload.districts.delta[pr[1]].delta.sensors.delta
                             = {pr[2]}
                       /\ sent.payload.districts.delta[pr[1]].delta.sensors.delta[pr[2]]
                             = Nested([f \in changed |->
                                          IF f \notin DOMAIN old THEN Added(new[f])
                                          ELSE IF f \notin DOMAIN new THEN Deleted(old[f])
                                          ELSE Modified(old[f], new[f])])]_vars

\* a client that holds two districts was sent an update whose only entry is
\* the value of sensor s1 of district D1
C22_Witness ==
    \E c \in DOMAIN lastStates :
       /\ Len(outbox[c]) = 2
       /\ outbox[c][1].event = "initial-state"
       /\ DistrictIdsOf(outbox[c][1].payload) = {"D1", "D2"}
       /\ outbox[c][2]
             = [event |-> "state-update",
                payload |->
                   [districts |->
                      Nested([d \in {"D1"} |->
                         Nested([f \in {"sensors"} |->
                            Nested([s \in {"s1"} |->
                               Nested([v \in {"value"} |-> Modified(42, 38)])])])])]]

\* the hub while no event is ingested
NextConnections ==
    \/ \E c \in Clients : Connection(c)
    \/ \E c \in Clients : SendInitialState(c)
    \/ \E c \in Clients : InitialStateFails(c)
    \/ \E c \in Clients : Disconnect(c)
    \/ BroadcastTick
    \/ BroadcastFetched
    \/ BroadcastFails
    \/ BroadcastSend

\* the broadcast timer keeps firing, the forEach runs once the state is
\* fetched, and the store answers again and again
SpecHubFair ==
    /\ InitHub
    /\ [][NextConnections]_vars
    /\ WF_vars(BroadcastTick)
    /\ WF_vars(BroadcastSend)
    /\ SF_vars(BroadcastFetched)

C24_OtherClientsServed ==
    [][(broadcast.phase = "fetched" /\ broadcast'.phase = "idle") =>
          \A c \in DOMAIN lastStates :
             (/\ sockets[c].conn = "open"
              /\ c \notin broadcast'.failed
              /\ \E d \in (DOMAIN lastStates) \ {c} :
                    d \in broadcast'.failed \/ sockets[d].conn = "closed"
              /\ normalizeStateForDiff(lastStates[c])
                    # normalizeStateForDiff(broadcast.currentState)) =>
                /\ outbox'[c] = Append(outbox[c],
                                       [event |-> "state-update",
                                        payload |-> DeltaFor(c, broadcast.currentState)])
                /\ c \in DOMAIN lastStates'
                /\ broadcast'.phase = "idle"]_vars

\* a cycle in which the diff or emit of one socket threw and the other socket
\* was sent its update
C24_Witness ==
    /\ broadcast.phase = "idle"
    /\ DOMAIN lastStates = Clients
    /\ \E c, d \in Clients :
          /\ "failed" \in DOMAIN broadcast
          /\ broadcast.failed = {d}
          /\ Events(c) = <<"initial-state", "state-update">>
          /\ Events(d) = <<"initial-state">>
          /\ lastStates[c] = JsonCopy(getCompleteState(redis))
          /\ normalizeStateForDiff(lastStates[d]) # normalizeStateForDiff(lastStates[c])

(***************************************************************************)
(* Error handling of the ingestion loop                                    *)
(***************************************************************************)
\* C25: when handleBatch returns, every bucket task of the batch has gone
\* through all of its messages and commitOffsetsIfNecessary has been called,
\* whether or not a message or a heartbeat of some bucket failed
C25_SiblingsFinishThenCommit ==
    [][\A p \in Partitions :
          (handle[p] \in {"running", "committing"} /\ handle'[p] = "idle") =>
             /\ \A i \in 1..Len(tasks'[p]) : tasks'[p][i].phase \in {"done", "rejected"}
             /\ handle[p] = "committing"]_vars

\* C28: the change counter moves only for applied updates: a step that
\* applies no update, taken when every cache entry is in the store already,
\* leaves the counter where it was
C28_CounterFollowsUpdates ==
    [][(stateCache' = stateCache /\ StoreHoldsCache(stateCache, redis)) =>
          changeCounter' = changeCounter]_vars

(***************************************************************************)
(* The process from its start: ingestion, flush timer and broadcast timer  *)
(* with their failures                                                     *)
(***************************************************************************)
\* start(): connect, subscribe, loadStateToCache (an error is logged and the
\* cache stays empty), startFlushTimer, consumer.run; the partitions hold
\* the messages produced after the subscription
Start ==
    /\ ~alive
    /\ stopPhase = "running"
    /\ alive' = TRUE
    /\ \E loaded \in BOOLEAN :
         stateCache' = IF loaded THEN loadStateToCache(redis) ELSE EmptyMap
    /\ UNCHANGED <<impl, redis, lastOp, steps, log, ptopic, position, handle, tasks,
                   resolved, committed>>
    /\ UNCHANGED extraVars

\* start(): connect, subscribe or run rejects; the error is logged and
\* thrown again to the caller
StartFails ==
    /\ ~alive
    /\ stopPhase = "running"
    /\ stopPhase' = "fatal"
    /\ UNCHANGED <<impl, stateCache, redis, lastOp, steps, log, ptopic, position,
                   handle, tasks, resolved, committed, alive, flushResult>>
    /\ UNCHANGED otherVars

InitErrors ==
    /\ impl = "batch"
    /\ stateCache = EmptyMap
    /\ redis = EmptyMap
    /\ lastOp = NoOp
    /\ steps = 0
    /\ ptopic = [p \in Partitions |-> speedTopic]
    /\ \E n1 \in 0..MaxLog :
         log = [p \in Partitions |->
                   IF p = "P1" THEN [k \in 1..n1 |-> SensorMessage("D1", "E7", 42, 1)]
                   ELSE <<>>]
    /\ position = [p \in Partitions |-> 0]
    /\ handle = [p \in Partitions |-> "idle"]
    /\ tasks = [p \in Partitions |-> <<>>]
    /\ resolved = [p \in Partitions |-> {}]
    /\ committed = [p \in Partitions |-> 0]
    /\ alive = FALSE
    /\ InitExtra

NextErrors ==
    \/ Start
    \/ StartFails
    \/ \E p \in Partitions : StartBatch(p)
    \/ \E p \in Partitions, i \in 1..MaxLog : TaskResume(p, i)
    \/ \E p \in Partitions, i \in 1..MaxLog : HeartbeatOk(p, i)
    \/ \E p \in Partitions, i \in 1..MaxLog : HeartbeatFail(p, i)
    \/ \E p \in Partitions : CommitOffsets(p)
    \/ \E p \in Partitions : BatchReturn(p)
    \/ Flush
    \/ FlushFail
    \/ alive /\ Connection("s1")
    \/ alive /\ SendInitialState("s1")
    \/ alive /\ BroadcastTick
    \/ alive /\ BroadcastFails

SpecErrors == InitErrors /\ [][NextErrors]_vars

\* C26: once start() has succeeded no step ends the process: a failed
\* heartbeat or message leaves handleBatch returned and the consumer going
\* on, a failed flush leaves the flush timer armed, a failed broadcast leaves
\* the broadcast timer armed; the process is given up as fatal only by a
\* start() that did not succeed
C26_OnlyStartIsFatal ==
    [][/\ alive => alive'
       /\ (stopPhase' = "fatal" /\ stopPhase # "fatal") => (~alive /\ ~alive')
       /\ (flushResult'.last = "failed" /\ flushResult' # flushResult) =>
             stopPhase' = "running"
       /\ \A p \in Partitions :
             (\E i \in 1..Len(tasks[p]) :
                 tasks[p][i].phase = "heartbeat" /\ tasks'[p][i].phase = "rejected") =>
                handle'[p] = "idle"
       /\ (broadcast.phase = "fetching" /\ broadcast' # broadcast
           /\ broadcast'.phase # "fetched") =>
             /\ broadcast'.phase = "idle"
             /\ alive']_vars

\* the process runs after a heartbeat, a flush and a broadcast have failed
C26_Witness ==
    /\ alive
    /\ stopPhase = "running"
    /\ flushResult.last = "failed"
    /\ \E p \in Partitions : \E i \in 1..Len(tasks[p]) : tasks[p][i].phase = "rejected"
    /\ broadcast = [phase |-> "idle", logged |-> "Error broadcasting updates"]

(***************************************************************************)
(* Messages that are dropped                                               *)
(***************************************************************************)
\* the batch consumer's switch has no case for the topic, or the mutator
\* returns at its identity guard (README.md:1694, 1737, 1786, 1850, 1964)
DroppedByBatch(topic, data) ==
    \/ topic \notin {speedTopic, weatherTopic, cameraTopic, buildingsTopic, vehiclesTopic}
    \/ /\ topic \in {speedTopic, weatherTopic, cameraTopic}
       /\ (data.district_id = "" \/ data.edge_id = "")
    \/ topic = buildingsTopic /\ data.building_id = ""
    \/ topic = vehiclesTopic /\ data.vehicle_id = ""

\* the topics handleMessage routes to a handler that changes one district
DistrictTopics ==
    {"sensors.environmental", "sensors.traffic", "buildings.occupancy",
     "buildings.sensors", "weather.stations", "traffic.graph"}

\* handleMessage's default branch, or the district handler returns at its
\* guard for a payload without districtId
DroppedByMessage(topic, data) ==
    \/ topic \notin DistrictTopics \cup {"transport.gps", "transport.stations",
                                         "emergency.incidents"}
    \/ topic \in DistrictTopics /\ ~TruthyStr(data, "districtId")

\* C27: a message of a topic without a handler, or a payload without its
\* identity fields, leaves the cache (the store, for the per-message
\* consumer) exactly as it was, the handler does not throw, and the message
\* counts as processed
C27_DroppedLeavesCache ==
    [][steps' # steps =>
         /\ (impl = "batch" /\ DroppedByBatch(lastOp'.topic, lastOp'.data)) =>
               /\ stateCache' = stateCache
               /\ ~ProcessThrows(lastOp'.topic, lastOp'.data)
               /\ steps' = steps + 1
         /\ (impl = "message" /\ DroppedByMessage(lastOp'.topic, lastOp'.data)) =>
               /\ redis' = redis
               /\ steps' = steps + 1]_vars

\* a payload without its edge id was handled by the batch consumer whose
\* cache holds a district
C27_Witness ==
    /\ impl = "batch"
    /\ steps >= 2
    /\ lastOp.topic = speedTopic
    /\ lastOp.data.edge_id = ""
    /\ DistrictKey("D1") \in DOMAIN stateCache

(***************************************************************************)
(* Notification manager: the consumer of the notifications topic           *)
(***************************************************************************)
\* enum NotificationSeverity
NotificationSeverity == {"info", "warning", "error", "critical"}

\* a timestamp string by its parts: "2025-01-15T10:30:00Z" has a date, a
\* time and the zone "Z"
Timestamp(date, time, zone) == [date |-> date, time |-> time, zone |-> zone]

\* z.string().datetime(): date, time and the zone Z; no offset, no bare date
IsDatetime(val) == val.date # "" /\ val.time # "" /\ val.zone = "Z"

\* new Date(val) of a string that new Date can read
ToDate(val) ==
    [epochDay |-> val.date, epochTime |-> IF val.time = "" THEN "00:00:00" ELSE val.time]

\* String.prototype.trim over the strings of the model: they carry no
\* surrounding blanks or are one blank
Trim(str) == IF str = " " THEN "" ELSE str

\* a schema that takes any string for the timestamp
incomingNotificationSchemaAnyTimestamp(raw) ==
    IF /\ {"message", "severity", "source", "timestamp"} \subseteq DOMAIN raw
       /\ raw.message # ""
       /\ raw.severity \in NotificationSeverity
       /\ raw.source # ""
    THEN [ok |-> TRUE,
          data |-> [message |-> raw.message, severity |-> raw.severity,
                    source |-> Trim(raw.source), timestamp |-> ToDate(raw.timestamp)]]
    ELSE [ok |-> FALSE]

\* incomingNotificationSchema.parse(rawPayload): the validated payload, or
\* a ZodError
incomingNotificationSchema(raw) ==
    IF /\ {"message", "severity", "source", "timestamp"} \subseteq DOMAIN raw
       /\ raw.message # ""
       /\ raw.severity \in NotificationSeverity
       /\ raw.source # ""
       /\ IsDatetime(raw.timestamp)
    THEN [ok |-> TRUE,
          data |-> [message |-> raw.message, severity |-> raw.severity,
                    source |-> Trim(raw.source), timestamp |-> ToDate(raw.timestamp)]]
    ELSE [ok |-> FALSE]

\* new NotificationModel({...}): the strings are trimmed by their setters
NotificationModel(fields) ==
    [fields EXCEPT !.message = Trim(@), !.source = Trim(@)]

\* the document passes the validation that save() runs first: required
\* strings are not empty, severity is of the enum
Validates(doc) ==
    /\ doc.message # ""
    /\ doc.source # ""
    /\ doc.severity \in NotificationSeverity

\* the value of a Kafka message: none, text that is no JSON, or JSON
NotificationValue(kind, payload) == [kind |-> kind, payload |-> payload]

ValidPayload ==
    [message |-> "flood", severity |-> "critical", source |-> "gateway",
     timestamp |-> Timestamp("2025-01-15", "10:30:00", "Z")]

NotificationInputs ==
    {NotificationValue("none", [k \in {} |-> ""]),
     NotificationValue("text", [k \in {} |-> ""]),
     NotificationValue("json", ValidPayload),
     NotificationValue("json", [ValidPayload EXCEPT !.severity = "info"]),
     NotificationValue("json", [f \in {"message", "severity", "timestamp"} |->
                                   ValidPayload[f]]),
     NotificationValue("json", [ValidPayload EXCEPT !.severity = "fatal"]),
     NotificationValue("json", [ValidPayload EXCEPT !.message = ""]),
     NotificationValue("json", [ValidPayload EXCEPT !.source = ""]),
     NotificationValue("json", [ValidPayload EXCEPT !.source = " "]),
     NotificationValue("json", [ValidPayload EXCEPT
                                   !.timestamp = Timestamp("2025-01-15", "", "")]),
     NotificationValue("json", [ValidPayload EXCEPT
                                   !.timestamp = Timestamp("2025-01-15", "10:30:00",
                                                           "+01:00")])}

LogLine(level, text) == [level |-> level, text |-> text]

\* what handleMessage does with one message whose save() resolves (saved)
\* or rejects: the documents of the collection and the line it logs
handleNotification(docs, value, saved) ==
    IF value.kind = "none"
    THEN [docs |-> docs, line |-> LogLine("warn", "Received empty message")]
    ELSE IF value.kind = "text"
    THEN [docs |-> docs, line |-> LogLine("error", "Error processing notification message")]
    ELSE LET parsed == incomingNotificationSchema(value.payload)
         IN  IF ~parsed.ok
             THEN [docs |-> docs,
                   line |-> LogLine("warn", "Invalid notification message format")]
             ELSE LET notification == NotificationModel(parsed.data)
                  IN  IF saved /\ Validates(notification)
                      THEN [docs |-> Append(docs, notification),
                            line |-> LogLine("info", "Notification stored")]
                      ELSE [docs |-> docs,
                            line |-> LogLine("error",
                                             "Error processing notification message")]

\* a producer writes a message to the notifications topic
ProduceNotification ==
    /\ Len(inbox) < MaxLog
    /\ \E value \in NotificationInputs : inbox' = Append(inbox, value)
    /\ UNCHANGED <<nOffset, nCommitted, notifications, nlogs>>
    /\ UNCHANGED <<impl, stateCache, redis, lastOp, steps, flushResult, stopPhase,
                   peerCache, hubVars, snapshotVars, outerVars>>
    /\ UNCHANGED ingestVars

\* eachMessage for the next message of the partition: handleMessage returns
\* in every branch, so the runner resolves the message's offset
EachNotification ==
    /\ nOffset < Len(inbox)
    /\ \E saved \in BOOLEAN :
         LET result == handleNotification(notifications, inbox[nOffset + 1], saved)
         IN  /\ notifications' = result.docs
             /\ nlogs' = Append(nlogs, result.line)
    /\ nOffset' = nOffset + 1
    /\ UNCHANGED <<inbox, nCommitted>>
    /\ UNCHANGED <<impl, stateCache, redis, lastOp, steps, flushResult, stopPhase,
                   peerCache, hubVars, snapshotVars, outerVars>>
    /\ UNCHANGED ingestVars

\* the runner's automatic commit of the resolved offsets
CommitNotifications ==
    /\ nCommitted < nOffset
    /\ nCommitted' = nOffset
    /\ UNCHANGED <<inbox, nOffset, notifications, nlogs>>
    /\ UNCHANGED <<impl, stateCache, redis, lastOp, steps, flushResult, stopPhase,
                   peerCache, hubVars, snapshotVars, outerVars>>
    /\ UNCHANGED ingestVars

InitNotifications ==
    /\ impl = "batch"
    /\ stateCache = EmptyMap
    /\ redis = EmptyMap
    /\ lastOp = NoOp
    /\ steps = 0
    /\ log = [p \in Partitions |-> <<>>]
    /\ ptopic = [p \in Partitions |-> speedTopic]
    /\ position = [p \in Partitions |-> 0]
    /\ handle = [p \in Partitions |-> "idle"]
    /\ tasks = [p \in Partitions |-> <<>>]
    /\ resolved = [p \in Partitions |-> {}]
    /\ committed = [p \in Partitions |-> 0]
    /\ alive = TRUE
    /\ InitExtra

NextNotifications == ProduceNotification \/ EachNotification \/ CommitNotifications

SpecNotifications == InitNotifications /\ [][NextNotifications]_vars

\* the message at an offset passed the schema and its save() was rejected
StoreFailed(offset) ==
    /\ inbox[offset].kind = "json"
    /\ incomingNotificationSchema(inbox[offset].payload).ok
    /\ nlogs[offset].level = "error"

\* C29: the offset of a message whose notification could not be stored is
\* not committed, so that the message is delivered again
C29_FailedStoreNotCommitted ==
    \A offset \in 1..nCommitted : ~StoreFailed(offset)

\* the value is empty, is no JSON, or its payload lacks a field, has a
\* severity outside the four levels, an empty message or source, or a
\* timestamp that is not a full ISO 8601 datetime
Malformed(value) ==
    \/ value.kind \in {"none", "text"}
    \/ ~({"message", "severity", "source", "timestamp"} \subseteq DOMAIN value.payload)
    \/ value.payload.severity \notin {"info", "warning", "error", "critical"}
    \/ value.payload.message = ""
    \/ value.payload.source = ""
    \/ value.payload.timestamp.time = ""
    \/ value.payload.timestamp.zone # "Z"

OrderedUpdates ==
    <<SensorMessage("D1", "E7", 42, 1), SensorMessage("D1", "E7", 38, 2),
      SensorMessage("D2", "E7", 42, 1), SensorMessage("D2", "E7", 38, 2)>>

\* handleBatch's loop body for the next message of the partition
ApplyInOrder ==
    /\ impl = "batch"
    /\ alive
    /\ steps < MaxSteps
    /\ steps < Len(OrderedUpdates)
    /\ stateCache' = processMessageInMemory(stateCache, speedTopic, OrderedUpdates[steps + 1])
    /\ lastOp' = [topic |-> speedTopic, data |-> OrderedUpdates[steps + 1], now |-> 0]
    /\ steps' = steps + 1
    /\ UNCHANGED <<impl, redis>>
    /\ UNCHANGED ingestVars
    /\ UNCHANGED extraVars

\* the cache after the first n messages of the partition
RECURSIVE CacheAfter(_)
CacheAfter(n) ==
    IF n = 0 THEN EmptyMap
    ELSE processMessageInMemory(CacheAfter(n - 1), speedTopic, OrderedUpdates[n])

NextTimers ==
    \/ ApplyInOrder
    \/ Flush
    \/ FlushFail
    \/ Connection("s1")
    \/ SendInitialState("s1")
    \/ BroadcastTick
    \/ BroadcastFetched
    \/ BroadcastSend

SpecTimers == InitFlush /\ [][NextTimers]_vars

\* C31: the state a broadcast tick has fetched to diff against the baselines
\* is the state of the cache as it was at one instant, never a mix of keys
\* written before and after a flush
C31_NoTornState ==
    broadcast.phase = "fetched" =>
       \E n \in 0..steps :
          broadcast.currentState =
             getCompleteState(flushCacheToRedis(CacheAfter(n), EmptyMap))

(***************************************************************************)
(* The cache entries an update leaves alone                                *)
(***************************************************************************)
\* the key of the cache entry the mutator of the message sets: the
\* district's key, 'vehicles' for a vehicle; "" when it sets none
EntryOf(topic, data) ==
    LET shard == ShardKey(topic, data)
    IN  IF shard = "" THEN ""
        ELSE IF shard = "shared" THEN "vehicles"
        ELSE DistrictKey(shard)

\* C32: an update changes no cache entry but the one of its district (the
\* vehicles entry for a vehicle update): every other entry stays, with the
\* value it had, and no entry but that one appears; so no update replaces
\* the set of entries
C32_OnlyOwnEntry ==
    [][(impl = "batch" /\ steps' = steps + 1) =>
          \A k \in (DOMAIN stateCache) \cup (DOMAIN stateCache') :
              k # EntryOf(lastOp'.topic, lastOp'.data) =>
                 /\ k \in DOMAIN stateCache
                 /\ k \in DOMAIN stateCache'
                 /\ stateCache'[k] = stateCache[k]]_vars

\* a reading of district D1 was applied to a cache that holds district D2
\* and the vehicles
C32_Witness ==
    /\ impl = "batch"
    /\ lastOp.topic = speedTopic
    /\ lastOp.data.district_id = "D1"
    /\ lastOp.data.edge_id = "E7"
    /\ DistrictKey("D1") \in DOMAIN stateCache
    /\ DistrictKey("D2") \in DOMAIN stateCache
    /\ "vehicles" \in DOMAIN stateCache

(***************************************************************************)
(* States that differ in their timestamps only                             *)
(***************************************************************************)
\* two objects with the same members but for the named ones
SameBut(x, y, names) ==
    /\ (DOMAIN x) \ names = (DOMAIN y) \ names
    /\ \A f \in (DOMAIN x) \ names : x[f] = y[f]

\* two arrays whose elements are the same but for the named members
SameArrayBut(a, b, names) ==
    /\ Len(a) = Len(b)
    /\ \A i \in 1..Len(a) : SameBut(a[i], b[i], names)

\* two districts that are the same but for lastUpdated, their own and that
\* of their sensors, buildings and weather stations
SameDistrictButTimes(x, y) ==
    /\ SameBut(x, y, {"lastUpdated", "sensors", "buildings", "weatherStations"})
    /\ SameArrayBut(x.sensors, y.sensors, {"lastUpdated"})
    /\ SameArrayBut(x.buildings, y.buildings, {"lastUpdated"})
    /\ SameArrayBut(x.weatherStations, y.weatherStations, {"lastUpdated"})

\* two states that are the same but for the timestamps of their districts,
\* graph edges, buses, stations, incidents and units
SameButTimes(a, b) ==
    /\ DistrictIdsOf(a) = DistrictIdsOf(b)
    /\ \A id \in DistrictIdsOf(a) : SameDistrictButTimes(DistrictOf(a, id), DistrictOf(b, id))
    /\ a.cityGraph.nodes = b.cityGraph.nodes
    /\ SameArrayBut(a.cityGraph.edges, b.cityGraph.edges, {"lastUpdated"})
    /\ SameArrayBut(a.publicTransport.buses, b.publicTransport.buses, {"lastUpdated"})
    /\ SameArrayBut(a.publicTransport.stations, b.publicTransport.stations, {"lastUpdated"})
    /\ SameArrayBut(a.emergencyServices.incidents, b.emergencyServices.incidents,
                    {"reportedAt", "lastUpdated"})
    /\ SameArrayBut(a.emergencyServices.units, b.emergencyServices.units, {"lastUpdated"})

\* C33: on the forEach of a broadcast tick, a connected socket whose baseline
\* differs from the current state in timestamps only is sent nothing and
\* keeps its baseline
C33_TimestampsOnlyNoUpdate ==
    [][(broadcast.phase = "fetched" /\ broadcast'.phase = "idle") =>
          \A c \in DOMAIN lastStates :
             (/\ sockets[c].conn = "open"
              /\ JsonCopy(lastStates[c]) # JsonCopy(broadcast.currentState)
              /\ SameButTimes(JsonCopy(lastStates[c]), JsonCopy(broadcast.currentState))) =>
                /\ outbox'[c] = outbox[c]
                /\ c \in DOMAIN lastStates'
                /\ lastStates'[c] = lastStates[c]]_vars

\* a tick has run for a socket whose baseline has sensor s1 with the value
\* of the store and an older lastUpdated: it was sent the initial state only
C33_Witness ==
    /\ broadcast = [phase |-> "idle", failed |-> {}]
    /\ \E c \in DOMAIN lastStates :
          /\ sockets[c].conn = "open"
          /\ Events(c) = <<"initial-state">>
          /\ JsonCopy(lastStates[c]) # JsonCopy(getCompleteState(redis))
          /\ SameButTimes(JsonCopy(lastStates[c]), JsonCopy(getCompleteState(redis)))

\* C34: a message whose mutator throws leaves the cache as it was before
\* the message
C34_ThrowLeavesCache ==
    [][(impl = "batch" /\ steps' = steps + 1
        /\ ProcessThrows(lastOp'.topic, lastOp'.data)) =>
          stateCache' = stateCache]_vars

(***************************************************************************)
(* Broadcast cycles that overlap: setInterval fires the next tick while    *)
(* the cycle before it still awaits getCompleteState or its continuation   *)
(***************************************************************************)
\* the readings of sensor s1 in the order of their arrival, each with a
\* value of its own
OrderedReadings ==
    [n \in 1..4 |->
        [districtId |-> "D1", sensorId |-> "s1", type |-> "pm25",
         value |-> 40 + n, unit |-> "ug/m3", lastUpdated |-> n]]

\* handleMessage for the next reading
HandleInOrder ==
    /\ impl = "message"
    /\ steps < MaxSteps
    /\ steps < Len(OrderedReadings)
    /\ redis' = RouteMessage(redis, "sensors.environmental", OrderedReadings[steps + 1], 8)
    /\ lastOp' = [topic |-> "sensors.environmental", data |-> OrderedReadings[steps + 1],
                  now |-> 8]
    /\ steps' = steps + 1
    /\ UNCHANGED <<notifVars, outerVars>>
    /\ changeCounter' = incrementChangeCounter(changeCounter, 1)
    /\ UNCHANGED <<impl, stateCache, flushResult, stopPhase, peerCache>>
    /\ UNCHANGED ingestVars
    /\ UNCHANGED hubVars

\* the store after the first n readings
RECURSIVE StoreAfter(_)
StoreAfter(n) ==
    IF n = 0 THEN EmptyMap
    ELSE RouteMessage(StoreAfter(n - 1), "sensors.environmental", OrderedReadings[n], 8)

\* the timer fires while the cycle of the tick before is in flight: nothing
\* in the callback waits for it, both cycles go on
TickOverlaps ==
    /\ broadcast.phase \in {"fetching", "fetched"}
    /\ earlier.phase = "idle"
    /\ DOMAIN lastStates # {}
    /\ earlier' = broadcast
    /\ broadcast' = [phase |-> "fetching"]
    /\ UNCHANGED <<redis, lastStates, sockets, outbox>>
    /\ UNCHANGED <<impl, stateCache, lastOp, steps, flushResult, stopPhase, peerCache>>
    /\ UNCHANGED ingestVars
    /\ UNCHANGED <<snapshotVars, notifVars, dashVars>>

\* getCompleteState of the earlier cycle has read the store
EarlierFetched ==
    /\ earlier.phase = "fetching"
    /\ earlier' = [phase |-> "fetched", currentState |-> getCompleteState(redis)]
    /\ UNCHANGED hubVars
    /\ UNCHANGED <<impl, stateCache, redis, lastOp, steps, flushResult, stopPhase, peerCache>>
    /\ UNCHANGED ingestVars
    /\ UNCHANGED <<snapshotVars, notifVars, dashVars>>

\* lastStates.forEach of the earlier cycle, with the state that cycle fetched
EarlierSend ==
    /\ earlier.phase = "fetched"
    /\ LET currentState == earlier.currentState
           connected == {c \in DOMAIN lastStates : sockets[c].conn = "open"}
           changed == Updated(connected, {}, currentState)
       IN  /\ lastStates' = [c \in connected |->
                                IF c \in changed THEN JsonCopy(currentState)
                                ELSE lastStates[c]]
           /\ outbox' = [c \in Clients |->
                            IF c \in changed
                            THEN Append(outbox[c],
                                        [event |-> "state-update",
                                         payload |-> DeltaFor(c, currentState)])
                            ELSE outbox[c]]
    /\ earlier' = [phase |-> "idle"]
    /\ UNCHANGED <<redis, sockets, broadcast>>
    /\ UNCHANGED <<impl, stateCache, lastOp, steps, flushResult, stopPhase, peerCache>>
    /\ UNCHANGED ingestVars
    /\ UNCHANGED <<snapshotVars, notifVars, dashVars>>

InitOverlap ==
    /\ InitApply
    /\ impl = "message"
    /\ redis = EmptyMap

NextOverlap ==
    \/ HandleInOrder
    \/ Connection("s1")
    \/ SendInitialState("s1")
    \/ BroadcastTick
    \/ BroadcastFetched
    \/ BroadcastSend
    \/ TickOverlaps
    \/ EarlierFetched
    \/ EarlierSend

SpecOverlap == InitOverlap /\ [][NextOverlap]_vars

\* the number of readings the store held when it was in the given state
Age(state) ==
    CHOOSE n \in 0..Len(OrderedReadings) :
        JsonCopy(getCompleteState(StoreAfter(n))) = JsonCopy(state)

\* C35: the baseline of a client is never set to a state older than the
\* baseline it has
C35_BaselineForward ==
    [][\A c \in (DOMAIN lastStates) \cap (DOMAIN lastStates') :
          Age(lastStates'[c]) >= Age(lastStates[c])]_vars

(***************************************************************************)
(* The dashboard: the city-state store (part_007:224-284) fed by           *)
(* DashboardPage (part_006:24-52) with the state of GET /state and with    *)
(* the patches of the hub                                                  *)
(***************************************************************************)
\* the client whose socket is the dashboard's
Dash == "s1"

\* loadInitialState up to its await: the request for the full state is sent
loadInitialState ==
    /\ ~dashboard.isLoading
    /\ dashboard.cityState = NoState
    /\ dashboard' = [dashboard EXCEPT !.isLoading = TRUE]
    /\ UNCHANGED received
    /\ UNCHANGED <<impl, stateCache, redis, lastOp, steps, flushResult, stopPhase, peerCache>>
    /\ UNCHANGED ingestVars
    /\ UNCHANGED <<hubVars, snapshotVars, notifVars, overlapVars, serviceVars, pollVars>>

\* StateManagerApi.getFullState has resolved with the state of the store
LoadResolved ==
    /\ dashboard.isLoading
    /\ dashboard' = [cityState |-> JsonCopy(getCompleteState(redis)), isLoading |-> FALSE]
    /\ UNCHANGED received
    /\ UNCHANGED <<impl, stateCache, redis, lastOp, steps, flushResult, stopPhase, peerCache>>
    /\ UNCHANGED ingestVars
    /\ UNCHANGED <<hubVars, snapshotVars, notifVars, overlapVars, serviceVars, pollVars>>

\* StateManagerApi.getFullState has thrown: the catch keeps the state
LoadRejected ==
    /\ dashboard.isLoading
    /\ dashboard' = [dashboard EXCEPT !.isLoading = FALSE]
    /\ UNCHANGED received
    /\ UNCHANGED <<impl, stateCache, redis, lastOp, steps, flushResult, stopPhase, peerCache>>
    /\ UNCHANGED ingestVars
    /\ UNCHANGED <<hubVars, snapshotVars, notifVars, overlapVars, serviceVars, pollVars>>

\* applyIncrementalUpdate: without a state the patch is dropped with a
\* warning
applyIncrementalUpdate(store, patch) ==
    IF store.cityState = NoState THEN store
    ELSE [store EXCEPT !.cityState = applyPatch(store.cityState, patch)]

\* the dashboard's socket handles the next message of the hub: only an
\* update with a patch reaches the store's subscribers
OnMessage ==
    /\ received < Len(outbox[Dash])
    /\ received' = received + 1
    /\ LET message == outbox[Dash][received + 1]
       IN  dashboard' = IF message.event = "state-update"
                        THEN applyIncrementalUpdate(dashboard, message.payload)
                        ELSE dashboard
    /\ UNCHANGED <<impl, stateCache, redis, lastOp, steps, flushResult, stopPhase, peerCache>>
    /\ UNCHANGED ingestVars
    /\ UNCHANGED <<hubVars, snapshotVars, notifVars, overlapVars, serviceVars, pollVars>>

NextDashboard ==
    \/ HandleInOrder
    \/ Connection(Dash)
    \/ SendInitialState(Dash)
    \/ BroadcastTick
    \/ BroadcastFetched
    \/ BroadcastSend
    \/ loadInitialState
    \/ LoadResolved
    \/ LoadRejected
    \/ OnMessage

SpecDashboard == InitOverlap /\ [][NextDashboard]_vars

\* the last message the dashboard has handled was an update of the hub
UpdateHandled ==
    /\ received > 0
    /\ outbox[Dash][received].event = "state-update"

\* C36: when the dashboard has handled every message sent to it, the last
\* of them an update, its city state equals the baseline the hub holds for
\* its connection, up to the stripped timestamps
C36_DashboardHoldsBaseline ==
    (/\ Dash \in DOMAIN lastStates
     /\ sockets[Dash].conn = "open"
     /\ broadcast.phase = "idle"
     /\ received = Len(outbox[Dash])
     /\ UpdateHandled) =>
        /\ dashboard.cityState # NoState
        /\ normalizeStateForDiff(dashboard.cityState)
             = normalizeStateForDiff(JsonCopy(lastStates[Dash]))

(***************************************************************************)
(* WebSocketService (part_007:17-199). The service record holds the fields *)
(* of the object and what its calls left in the browser: readyState[s] is  *)
(* the state of the s-th socket it created (ws is the index of this.ws, 0  *)
(* for null), reconnectTimeout says whether the timer whose id the field  *)
(* holds is pending, overwritten counts the pending timers whose id the    *)
(* field no longer holds.                                                  *)
(***************************************************************************)
MaxSockets == 3
MaxPings == 2

maxReconnectAttempts == 10

\* the reconnect timers that are set and have not fired
TimersPending(w) == w.overwritten + (IF w.reconnectTimeout = "pending" THEN 1 ELSE 0)

\* this.ws?.readyState === WebSocket.OPEN
IsOpen(w) == w.ws # 0 /\ w.readyState[w.ws] = "open"

setConnectionState(w, state) == [w EXCEPT !.connectionState = state]

clearPingInterval(w) == [w EXCEPT !.pingInterval = FALSE]

startPingInterval(w) == [clearPingInterval(w) EXCEPT !.pingInterval = TRUE]

\* scheduleReconnect: the id of the new timer replaces the one in the field
scheduleReconnect(w) ==
    IF w.reconnectAttempts >= maxReconnectAttempts THEN w
    ELSE [w EXCEPT !.reconnectAttempts = @ + 1,
                   !.overwritten = @ + (IF w.reconnectTimeout = "pending" THEN 1 ELSE 0),
                   !.reconnectTimeout = "pending"]

\* connect(): new WebSocket either returns a socket or throws
connect(w, throws) ==
    IF IsOpen(w) THEN w
    ELSE IF throws THEN scheduleReconnect(setConnectionState(w, "error"))
    ELSE [setConnectionState(w, "connecting") EXCEPT
             !.readyState = Append(@, "connecting"),
             !.ws = Len(w.readyState) + 1]

\* disconnect()
disconnect(w) ==
    LET stopped == clearPingInterval([w EXCEPT !.reconnectAttempts = maxReconnectAttempts])
        cleared == [stopped EXCEPT !.reconnectTimeout = "null"]
        closed == IF cleared.ws = 0 THEN cleared
                  ELSE [cleared EXCEPT
                           !.readyState[cleared.ws] =
                               IF @ \in {"connecting", "open"} THEN "closing" ELSE @,
                           !.ws = 0]
    IN  setConnectionState(closed, "disconnected")

\* the handlers setupEventHandlers gives to a socket: they act on the
\* service, whichever socket the event is of
onopen(w) ==
    startPingInterval(setConnectionState([w EXCEPT !.reconnectAttempts = 0], "connected"))

onerror(w) == setConnectionState(w, "error")

onclose(w) ==
    LET down == setConnectionState(clearPingInterval(w), "disconnected")
    IN  IF down.reconnectAttempts < maxReconnectAttempts THEN scheduleReconnect(down)
        ELSE down

ServiceUnchanged ==
    /\ UNCHANGED <<impl, stateCache, redis, lastOp, steps, flushResult, stopPhase, peerCache>>
    /\ UNCHANGED ingestVars
    /\ UNCHANGED <<hubVars, snapshotVars, notifVars, overlapVars, storeVars, pollVars>>

\* DashboardPage's effect calls connect() when the page is mounted
Mount ==
    /\ called # "connect"
    /\ Len(service.readyState) < MaxSockets
    /\ \E throws \in BOOLEAN : service' = connect(service, throws)
    /\ called' = "connect"
    /\ UNCHANGED pings
    /\ ServiceUnchanged

\* the effect's cleanup calls disconnect()
Unmount ==
    /\ called = "connect"
    /\ service' = disconnect(service)
    /\ called' = "disconnect"
    /\ UNCHANGED pings
    /\ ServiceUnchanged

\* the open event of a socket the service created
SocketOpens ==
    /\ \E s \in DOMAIN service.readyState :
          /\ service.readyState[s] = "connecting"
          /\ service' = onopen([service EXCEPT !.readyState[s] = "open"])
    /\ UNCHANGED <<pings, called>>
    /\ ServiceUnchanged

\* the close event of a socket the service created, after an error event
\* when the connection failed
SocketCloses ==
    /\ \E s \in DOMAIN service.readyState, failed \in BOOLEAN :
          /\ service.readyState[s] \in {"connecting", "open", "closing"}
          /\ LET gone == [service EXCEPT !.readyState[s] = "closed"]
             IN  service' = onclose(IF failed THEN onerror(gone) ELSE gone)
    /\ UNCHANGED <<pings, called>>
    /\ ServiceUnchanged

\* a reconnect timer fires and calls connect()
ReconnectFires ==
    /\ TimersPending(service) > 0
    /\ Len(service.readyState) < MaxSockets
    /\ \E held \in BOOLEAN, throws \in BOOLEAN :
          /\ held => service.reconnectTimeout = "pending"
          /\ ~held => service.overwritten > 0
          /\ service' = connect(IF held
                                THEN [service EXCEPT !.reconnectTimeout = "fired"]
                                ELSE [service EXCEPT !.overwritten = @ - 1],
                                throws)
    /\ UNCHANGED <<pings, called>>
    /\ ServiceUnchanged

\* the ping interval fires with the socket open
Ping ==
    /\ service.pingInterval
    /\ IsOpen(service)
    /\ pings < MaxPings
    /\ pings' = pings + 1
    /\ UNCHANGED <<service, called>>
    /\ ServiceUnchanged

InitService == InitOverlap

NextService ==
    \/ Mount
    \/ Unmount
    \/ SocketOpens
    \/ SocketCloses
    \/ ReconnectFires
    \/ Ping

SpecService == InitService /\ [][NextService]_vars

\* C37: reconnectAttempts never exceeds maxReconnectAttempts and at most
\* one reconnect timer is pending
C37_ReconnectBounded ==
    /\ service.reconnectAttempts <= maxReconnectAttempts
    /\ TimersPending(service) <= 1

\* C38: from disconnect() until the page calls connect() again no reconnect
\* timer is set or fires, no socket is created, no ping is sent, and with
\* every socket closed the connection state is 'disconnected'
C38_DisconnectedStays ==
    [][(called = "disconnect" /\ called' = "disconnect") =>
          /\ TimersPending(service') = 0
          /\ TimersPending(service) = 0
          /\ service'.readyState \in
                [DOMAIN service.readyState -> {"connecting", "open", "closing", "closed"}]
          /\ pings' = pings
          /\ (\A s \in DOMAIN service'.readyState : service'.readyState[s] = "closed")
                => service'.connectionState = "disconnected"]_vars

\* C39: connectionState is 'connected' exactly while the socket the service
\* holds is open
C39_ConnectedIffOpen ==
    (service.connectionState = "connected") <=> IsOpen(service)

(***************************************************************************)
(* Notification polling: useNotificationPolling.ts:10-58 against           *)
(* GET /notifications (part_010:22-103). Time is counted in poll           *)
(* intervals of 5 s, which is also the length of the first window; a       *)
(* timestamp is the interval the notification is of, -1 is null. The       *)
(* collection is held as the number of documents of each timestamp.        *)
(***************************************************************************)
MaxTime == 3

\* limit: 50 of the query
PollLimit == 50

Times == 0..4

RECURSIVE NewerThan(_, _)
\* the documents with a timestamp after t
NewerThan(docs, t) ==
    IF t >= 4 THEN 0 ELSE docs[t + 1] + NewerThan(docs, t + 1)

\* NotificationModel.find(query).sort({timestamp: -1}).skip(0).limit(limit):
\* the newest documents not older than timestampFrom, limit of them at most
find(docs, timestampFrom, limit) ==
    [t \in Times |->
        IF t < timestampFrom THEN 0
        ELSE LET left == limit - NewerThan(docs, t)
             IN  IF left <= 0 THEN 0
                 ELSE IF docs[t] <= left THEN docs[t] ELSE left]

\* lastPollRef.current || new Date(Date.now() - 5000)
timestampFrom(ref, now) == IF ref = -1 THEN now - 1 ELSE ref

\* data.notifications[0].timestamp of a response that is not empty
latestTimestamp(data) == CHOOSE t \in Times : data[t] > 0 /\ NewerThan(data, t) = 0

PollUnchanged ==
    /\ UNCHANGED <<impl, stateCache, redis, lastOp, steps, flushResult, stopPhase, peerCache>>
    /\ UNCHANGED ingestVars
    /\ UNCHANGED <<hubVars, snapshotVars, notifVars, overlapVars, storeVars, serviceVars>>

\* the notification manager stores notifications of the current time: one,
\* or as many as a page of the query holds
StoreNotifications ==
    /\ stored[clock] = 0
    /\ \E k \in {1, PollLimit} : stored' = [stored EXCEPT ![clock] = k]
    /\ UNCHANGED <<clock, poll, passed>>
    /\ PollUnchanged

\* refetchInterval: the next poll is due; every interval has had its poll
NextInterval ==
    /\ clock < MaxTime
    /\ poll.phase = "idle"
    /\ poll.done
    /\ clock' = clock + 1
    /\ poll' = [poll EXCEPT !.done = FALSE]
    /\ UNCHANGED <<stored, passed>>
    /\ PollUnchanged

\* queryFn sends the request; every request is answered
queryFn ==
    /\ poll.phase = "idle"
    /\ ~poll.done
    /\ poll' = [phase |-> "requested", lastPollRef |-> poll.lastPollRef, done |-> FALSE,
                timestampFrom |-> timestampFrom(poll.lastPollRef, clock)]
    /\ UNCHANGED <<clock, stored, passed>>
    /\ PollUnchanged

\* GET /notifications answers the request
getNotifications ==
    /\ poll.phase = "requested"
    /\ poll' = [phase |-> "responded", lastPollRef |-> poll.lastPollRef, done |-> FALSE,
                data |-> find(stored, poll.timestampFrom, PollLimit)]
    /\ UNCHANGED <<clock, stored, passed>>
    /\ PollUnchanged

\* the effect on data: addNotifications and the move of lastPollRef
DataEffect ==
    /\ poll.phase = "responded"
    /\ LET data == poll.data
           some == \E t \in Times : data[t] > 0
       IN  /\ passed' = [t \in Times |-> IF data[t] > passed[t] THEN data[t] ELSE passed[t]]
           /\ poll' = [phase |-> "idle", done |-> TRUE,
                       lastPollRef |-> IF some THEN latestTimestamp(data)
                                       ELSE poll.lastPollRef]
    /\ UNCHANGED <<clock, stored>>
    /\ PollUnchanged

InitPolling == InitOverlap

NextPolling ==
    \/ StoreNotifications
    \/ NextInterval
    \/ queryFn
    \/ getNotifications
    \/ DataEffect

SpecPolling == InitPolling /\ [][NextPolling]_vars

\* C40: between two polls no stored notification that was not passed to
\* addNotifications is older than the start of the next poll's window
C40_NothingLeftBehind ==
    poll.phase = "idle" =>
       \A t \in Times :
          stored[t] > passed[t] => t >= timestampFrom(poll.lastPollRef, clock)

====
